---- MODULE Spec2Model ----
(***************************************************************************)
(* ReassureMe: the symptom-intake conversation.  Three generations of the  *)
(* conversation service live in the repository:                            *)
(*   "det" - src/src/services/conversationService.ts, the deterministic    *)
(*           Phase Engine;                                                 *)
(*   "ai"  - src/unnamed/part_000 lines 1-446, which asks the model for    *)
(*           the whole next state and falls back to the Phase Engine;      *)
(*   "sev" - src/unnamed/part_000 lines 448-831, the severity flow, which  *)
(*           asks the model only for requiresLocation and the wording.     *)
(* The chat component (src/src/components/ChatInterface.tsx) drives them.  *)
(* Texts are TLA+ strings; substring search and case folding are computed  *)
(* character by character as String.prototype.includes / toLowerCase do.   *)
(***************************************************************************)
EXTENDS Integers, Sequences, FiniteSets, TLC

(***************************************************************************)
(* Strings                                                                 *)
(***************************************************************************)

UpperChars == <<"A","B","C","D","E","F","G","H","I","J","K","L","M",
                "N","O","P","Q","R","S","T","U","V","W","X","Y","Z">>

LowerChars == <<"a","b","c","d","e","f","g","h","i","j","k","l","m",
                "n","o","p","q","r","s","t","u","v","w","x","y","z">>

LowerChar(c) ==
    IF \E i \in 1..26 : UpperChars[i] = c
    THEN LowerChars[CHOOSE i \in 1..26 : UpperChars[i] = c]
    ELSE c

RECURSIVE toLowerCase(_)
toLowerCase(s) ==
    IF Len(s) = 0 THEN ""
    ELSE LowerChar(SubSeq(s, 1, 1)) \o toLowerCase(SubSeq(s, 2, Len(s)))

\* String.prototype.includes: k occurs in s as a contiguous substring.
includes(s, k) ==
    \E i \in 1..(Len(s) - Len(k) + 1) : SubSeq(s, i, i + Len(k) - 1) = k

IsSpace(c) == c \in {" ", "\t", "\n", "\r"}

RECURSIVE trimStart(_)
trimStart(s) ==
    IF Len(s) > 0 /\ IsSpace(SubSeq(s, 1, 1))
    THEN trimStart(SubSeq(s, 2, Len(s)))
    ELSE s

RECURSIVE trimEnd(_)
trimEnd(s) ==
    IF Len(s) > 0 /\ IsSpace(SubSeq(s, Len(s), Len(s)))
    THEN trimEnd(SubSeq(s, 1, Len(s) - 1))
    ELSE s

trim(s) == trimEnd(trimStart(s))

(***************************************************************************)
(* Optional values.  An optional string field is <<>> when it is undefined *)
(* (or null: the code only ever tests such a field for truthiness) and     *)
(* <<s>> when it holds the string s.                                       *)
(***************************************************************************)

Undefined == <<>>

Some(s) == <<s>>

\* JavaScript truthiness of an optional string: defined and not "".
Truthy(f) == f # Undefined /\ f[1] # ""

\* f || d
OrElse(f, d) == IF Truthy(f) THEN f[1] ELSE d

\* `${f}` in a template literal.
Interpolate(f) == IF f = Undefined THEN "undefined" ELSE f[1]

(***************************************************************************)
(* JSON.parse, for texts of objects, arrays, strings without escapes,      *)
(* unsigned integers and the three literals.                               *)
(***************************************************************************)

charAt(s, i) == IF i >= 1 /\ i <= Len(s) THEN SubSeq(s, i, i) ELSE ""

JsonWhitespace == {" ", "\n", "\t", "\r"}

Digits == {"0", "1", "2", "3", "4", "5", "6", "7", "8", "9"}

RECURSIVE skipWhitespace(_, _)
skipWhitespace(s, i) ==
    IF i <= Len(s) /\ charAt(s, i) \in JsonWhitespace THEN skipWhitespace(s, i + 1) ELSE i

\* A parse that stopped at index at (1-based) of the text.
JsonFailure(at) == [ok |-> FALSE, at |-> at, next |-> at, value |-> [t |-> "none"]]

JsonSuccess(value, next) == [ok |-> TRUE, at |-> 0, next |-> next, value |-> value]

RECURSIVE indexOfFrom(_, _, _)
indexOfFrom(s, c, i) ==
    IF i > Len(s) THEN 0
    ELSE IF charAt(s, i) = c THEN i
    ELSE indexOfFrom(s, c, i + 1)

RECURSIVE endOfDigits(_, _)
endOfDigits(s, i) ==
    IF charAt(s, i) \in Digits THEN endOfDigits(s, i + 1) ELSE i

parseJsonString(s, i) ==
    LET close == indexOfFrom(s, "\"", i + 1)
    IN  IF close = 0 THEN JsonFailure(Len(s) + 1)
        ELSE IF indexOfFrom(SubSeq(s, i + 1, close - 1), "\n", 1) # 0
             THEN JsonFailure(i + indexOfFrom(SubSeq(s, i + 1, close - 1), "\n", 1))
        ELSE JsonSuccess([t |-> "string", v |-> SubSeq(s, i + 1, close - 1)], close + 1)

parseJsonLiteral(s, i, word, value) ==
    IF SubSeq(s, i, i + Len(word) - 1) = word
    THEN JsonSuccess(value, i + Len(word))
    ELSE JsonFailure(i)

\* The members read so far, as the object JSON.parse builds: a later member
\* replaces an earlier one of the same key.
JsonObject(members) ==
    [t |-> "object",
     v |-> [k \in {members[n][1] : n \in 1..Len(members)} |->
              members[CHOOSE n \in 1..Len(members) :
                         /\ members[n][1] = k
                         /\ \A m \in n+1..Len(members) : members[m][1] # k][2]]]

RECURSIVE parseJsonValue(_, _), parseJsonElements(_, _, _), parseJsonMembers(_, _, _)
parseJsonValue(s, i) ==
    CASE charAt(s, i) = "{" ->
            IF charAt(s, skipWhitespace(s, i + 1)) = "}"
            THEN JsonSuccess(JsonObject(<<>>), skipWhitespace(s, i + 1) + 1)
            ELSE parseJsonMembers(s, skipWhitespace(s, i + 1), <<>>)
      [] charAt(s, i) = "[" ->
            IF charAt(s, skipWhitespace(s, i + 1)) = "]"
            THEN JsonSuccess([t |-> "array", v |-> <<>>], skipWhitespace(s, i + 1) + 1)
            ELSE parseJsonElements(s, skipWhitespace(s, i + 1), <<>>)
      [] charAt(s, i) = "\"" -> parseJsonString(s, i)
      [] charAt(s, i) \in Digits ->
            JsonSuccess([t |-> "number", v |-> SubSeq(s, i, endOfDigits(s, i) - 1)],
                        endOfDigits(s, i))
      [] charAt(s, i) = "t" -> parseJsonLiteral(s, i, "true", [t |-> "true"])
      [] charAt(s, i) = "f" -> parseJsonLiteral(s, i, "false", [t |-> "false"])
      [] charAt(s, i) = "n" -> parseJsonLiteral(s, i, "null", [t |-> "null"])
      [] OTHER -> JsonFailure(i)

\* The elements of an array from index i on, after those of acc.
parseJsonElements(s, i, acc) ==
    LET element == parseJsonValue(s, i)
        after == skipWhitespace(s, element.next)
    IN  IF ~element.ok THEN element
        ELSE IF charAt(s, after) = ","
             THEN parseJsonElements(s, skipWhitespace(s, after + 1), Append(acc, element.value))
        ELSE IF charAt(s, after) = "]"
             THEN JsonSuccess([t |-> "array", v |-> Append(acc, element.value)], after + 1)
        ELSE JsonFailure(after)

\* The members of an object from index i on, after those of acc.
parseJsonMembers(s, i, acc) ==
    IF charAt(s, i) # "\"" THEN JsonFailure(i)
    ELSE
    LET key == parseJsonString(s, i)
        colon == skipWhitespace(s, key.next)
    IN  IF ~key.ok THEN key
        ELSE IF charAt(s, colon) # ":" THEN JsonFailure(colon)
        ELSE
        LET member == parseJsonValue(s, skipWhitespace(s, colon + 1))
            after == skipWhitespace(s, member.next)
        IN  IF ~member.ok THEN member
            ELSE IF charAt(s, after) = ","
                 THEN parseJsonMembers(s, skipWhitespace(s, after + 1),
                                       Append(acc, <<key.value.v, member.value>>))
            ELSE IF charAt(s, after) = "}"
                 THEN JsonSuccess(JsonObject(Append(acc, <<key.value.v, member.value>>)),
                                  after + 1)
            ELSE JsonFailure(after)

\* The SyntaxError of JSON.parse, told by the token the parse stopped at and
\* that token's position.
SyntaxError(text, at) ==
    [threw |-> TRUE,
     error |-> [name |-> "SyntaxError",
                token |-> IF at > Len(text) THEN "end of input" ELSE charAt(text, at),
                position |-> at - 1]]

\* What JSON.parse makes of the value read: nothing but whitespace may follow.
JsonParsed(text, parsed) ==
    IF ~parsed.ok THEN SyntaxError(text, parsed.at)
    ELSE IF skipWhitespace(text, parsed.next) <= Len(text)
    THEN SyntaxError(text, skipWhitespace(text, parsed.next))
    ELSE [threw |-> FALSE, value |-> parsed.value]

\* JSON.parse(text): the value, or the SyntaxError.
JSONparse(text) == JsonParsed(text, parseJsonValue(text, skipWhitespace(text, 1)))

LastIndexOf(s, c) ==
    IF \E i \in 1..Len(s) : charAt(s, i) = c
    THEN CHOOSE i \in 1..Len(s) :
            charAt(s, i) = c /\ \A k \in i+1..Len(s) : charAt(s, k) # c
    ELSE 0

\* trimmed.match(/\{[\s\S]*\}/): from the first '{' to the last '}'.
matchBraces(trimmed) ==
    LET open == indexOfFrom(trimmed, "{", 1)
        close == LastIndexOf(trimmed, "}")
    IN  IF open # 0 /\ close > open THEN Some(SubSeq(trimmed, open, close)) ELSE Undefined

\* return JSON.parse(match[0]): attempt tells which JSON.parse raised the
\* error thrown.
extractJsonSecond(second) ==
    IF second.threw
    THEN [threw |-> TRUE, error |-> second.error, attempt |-> 2]
    ELSE [threw |-> FALSE, value |-> second.value]

\* The catch block of extractJson.
extractJsonCatch(first, match) ==
    IF match # Undefined THEN extractJsonSecond(JSONparse(match[1]))
    ELSE [threw |-> TRUE, error |-> first.error, attempt |-> 1]

\* The try block of extractJson and what follows it.
extractJsonTry(first, trimmed) ==
    IF ~first.threw THEN [threw |-> FALSE, value |-> first.value]
    ELSE extractJsonCatch(first, matchBraces(trimmed))

extractJsonTrimmed(trimmed) == extractJsonTry(JSONparse(trimmed), trimmed)

extractJson(rawResponse) == extractJsonTrimmed(trim(rawResponse))

(***************************************************************************)
(* ConversationState                                                       *)
(***************************************************************************)

Phases == {"initial", "symptom", "location", "duration", "context", "severity", "summary"}

\* The order of the phases: initial < symptom < location < duration <
\* context < severity < summary.
PhaseRank(p) ==
    CASE p = "initial"  -> 0
      [] p = "symptom"  -> 1
      [] p = "location" -> 2
      [] p = "duration" -> 3
      [] p = "context"  -> 4
      [] p = "severity" -> 5
      [] p = "summary"  -> 6

\* The state every session starts in (useState in ChatInterface).
InitialState ==
    [symptom          |-> Undefined,
     bodyLocation     |-> Undefined,
     duration         |-> Undefined,
     contextualInfo   |-> Undefined,
     severity         |-> Undefined,
     conversationPhase |-> "symptom",
     requiresLocation |-> FALSE]

symptomsThatNeedLocation ==
    <<"pain", "ache", "soreness", "swelling", "rash", "bruise", "cut", "burn",
      "numbness", "tingling", "weakness", "stiffness", "itching", "bump", "lump">>

\* Object.entries(symptomHints), in insertion order.
symptomHints ==
    << <<"cough", "e.g. wet or dry, colour of phlegm, anything that triggers it, time of day it's worse">>,
       <<"headache", "e.g. throbbing or constant, location (front, back, sides), severity on a scale of 1-10, what makes it better or worse">>,
       <<"fever", "e.g. temperature if measured, time it started, accompanying symptoms like chills or sweating">>,
       <<"nausea", "e.g. accompanied by vomiting, relation to meals, severity, triggers">>,
       <<"fatigue", "e.g. how long you've felt tired, impact on daily activities, sleep quality">>,
       <<"dizziness", "e.g. spinning sensation or lightheadedness, when it occurs, triggers">>,
       <<"sore throat", "e.g. difficulty swallowing, pain level, accompanying symptoms">>,
       <<"default", "e.g. when it started, severity, what makes it better or worse, any patterns you've noticed">> >>

\* The first entry whose key occurs in the lower-cased symptom, else the
\* "default" entry (the last one).
getSymptomHint(symptom) ==
    LET lowerSymptom == toLowerCase(symptom)
        hits == {i \in 1..Len(symptomHints) : includes(lowerSymptom, symptomHints[i][1])}
    IN  IF hits # {}
        THEN symptomHints[CHOOSE i \in hits : \A j \in hits : i <= j][2]
        ELSE symptomHints[Len(symptomHints)][2]

needsBodyLocation(symptom) ==
    LET lowerSymptom == toLowerCase(symptom)
    IN  \E i \in 1..Len(symptomsThatNeedLocation) :
            includes(lowerSymptom, symptomsThatNeedLocation[i])

(***************************************************************************)
(* Results of a call.  A call either returns a value or throws; Threw      *)
(* stands for a rejected promise / propagated exception.                   *)
(***************************************************************************)

Threw == [threw |-> TRUE]

Question(message, newState, phase) ==
    [threw |-> FALSE, message |-> message, newState |-> newState, phase |-> phase]

(***************************************************************************)
(* The deterministic Phase Engine (conversationService.ts).                *)
(***************************************************************************)

\* An engine that moves on to the summary without storing what was said.
generateNextQuestionDetForgetful(state, userMessage) ==
    Question("Thank you for sharing that information. Is there anything else you'd like to add before I create a summary?",
             [state EXCEPT !.conversationPhase = "summary"], "summary")

generateNextQuestionDet(state, userMessage) ==
    CASE state.conversationPhase = "initial" ->
            Question("What symptom are you experiencing?",
                     [state EXCEPT !.conversationPhase = "symptom"], "symptom")
      [] state.conversationPhase = "symptom" ->
            IF needsBodyLocation(userMessage)
            THEN Question("Where exactly are you experiencing this?",
                          [state EXCEPT !.symptom = Some(userMessage),
                                        !.requiresLocation = TRUE,
                                        !.conversationPhase = "location"], "location")
            ELSE Question("How long have you been experiencing this symptom?",
                          [state EXCEPT !.symptom = Some(userMessage),
                                        !.requiresLocation = FALSE,
                                        !.conversationPhase = "duration"], "duration")
      [] state.conversationPhase = "location" ->
            Question("How long have you been experiencing this symptom?",
                     [state EXCEPT !.bodyLocation = Some(userMessage),
                                   !.conversationPhase = "duration"], "duration")
      [] state.conversationPhase = "duration" ->
            Question("Please tell me more about this symptom. "
                        \o getSymptomHint(OrElse(state.symptom, ""))
                        \o "\n\nAlso, is there any other information that might be relevant? For example, recent lifestyle changes, sleep patterns, stress levels, or activities that might be connected?",
                     [state EXCEPT !.duration = Some(userMessage),
                                   !.conversationPhase = "context"], "context")
      [] state.conversationPhase = "context" ->
            Question("Thank you for sharing that information. Is there anything else you'd like to add before I create a summary?",
                     [state EXCEPT !.contextualInfo = Some(userMessage),
                                   !.conversationPhase = "summary"], "summary")
      [] OTHER ->
            Question("I'm processing your information...", state, "summary")

(***************************************************************************)
(* The AI variant (part_000, lines 1-446): its own copies of the keyword   *)
(* tables, the fallback engine, and the model-backed generateNextQuestion. *)
(***************************************************************************)

symptomsThatNeedLocationAi ==
    <<"pain", "ache", "soreness", "swelling", "rash", "bruise", "cut", "burn",
      "numbness", "tingling", "weakness", "stiffness", "itching", "bump", "lump">>

symptomHintsAi ==
    << <<"cough", "e.g. wet or dry, colour of phlegm, anything that triggers it, time of day it's worse">>,
       <<"headache", "e.g. throbbing or constant, location (front, back, sides), severity on a scale of 1-10, what makes it better or worse">>,
       <<"fever", "e.g. temperature if measured, time it started, accompanying symptoms like chills or sweating">>,
       <<"nausea", "e.g. accompanied by vomiting, relation to meals, severity, triggers">>,
       <<"fatigue", "e.g. how long you've felt tired, impact on daily activities, sleep quality">>,
       <<"dizziness", "e.g. spinning sensation or lightheadedness, when it occurs, triggers">>,
       <<"sore throat", "e.g. difficulty swallowing, pain level, accompanying symptoms">>,
       <<"default", "e.g. when it started, severity, what makes it better or worse, any patterns you've noticed">> >>

getSymptomHintAi(symptom) ==
    LET lowerSymptom == toLowerCase(symptom)
        hits == {i \in 1..Len(symptomHintsAi) : includes(lowerSymptom, symptomHintsAi[i][1])}
    IN  IF hits # {}
        THEN symptomHintsAi[CHOOSE i \in hits : \A j \in hits : i <= j][2]
        ELSE symptomHintsAi[Len(symptomHintsAi)][2]

needsBodyLocationAi(symptom) ==
    LET lowerSymptom == toLowerCase(symptom)
    IN  \E i \in 1..Len(symptomsThatNeedLocationAi) :
            includes(lowerSymptom, symptomsThatNeedLocationAi[i])

\* A fallback that makes the Phase Engine's transition but words the
\* question on its own.
fallbackNextQuestionReworded(state, userMessage) ==
    [generateNextQuestionDet(state, userMessage) EXCEPT !.message = "Please continue."]

fallbackNextQuestion(state, userMessage) ==
    CASE state.conversationPhase = "initial" ->
            Question("What symptom are you experiencing?",
                     [state EXCEPT !.conversationPhase = "symptom"], "symptom")
      [] state.conversationPhase = "symptom" ->
            IF needsBodyLocationAi(userMessage)
            THEN Question("Where exactly are you experiencing this?",
                          [state EXCEPT !.symptom = Some(userMessage),
                                        !.requiresLocation = TRUE,
                                        !.conversationPhase = "location"], "location")
            ELSE Question("How long have you been experiencing this symptom?",
                          [state EXCEPT !.symptom = Some(userMessage),
                                        !.requiresLocation = FALSE,
                                        !.conversationPhase = "duration"], "duration")
      [] state.conversationPhase = "location" ->
            Question("How long have you been experiencing this symptom?",
                     [state EXCEPT !.bodyLocation = Some(userMessage),
                                   !.conversationPhase = "duration"], "duration")
      [] state.conversationPhase = "duration" ->
            Question("Please tell me more about this symptom. "
                        \o getSymptomHintAi(OrElse(state.symptom, ""))
                        \o "\n\nAlso, is there any other information that might be relevant? For example, recent lifestyle changes, sleep patterns, stress levels, or activities that might be connected?",
                     [state EXCEPT !.duration = Some(userMessage),
                                   !.conversationPhase = "context"], "context")
      [] state.conversationPhase = "context" ->
            Question("Thank you for sharing that information. Is there anything else you'd like to add before I create a summary?",
                     [state EXCEPT !.contextualInfo = Some(userMessage),
                                   !.conversationPhase = "summary"], "summary")
      [] OTHER ->
            Question("I'm processing your information...", state, "summary")

(***************************************************************************)
(* What one round trip to the model (requestAiResponse followed by         *)
(* extractJson) can come to:                                               *)
(*   [kind |-> "throw"]       requestAiResponse throws (no provider        *)
(*                            configured, non-OK status, empty content);   *)
(*   [kind |-> "unparsable"]  extractJson throws, or the parsed value is   *)
(*                            no object and reading a field of it throws;  *)
(*   [kind |-> "parsed", value |-> v]  the reply parsed to the object v.   *)
(* A field of a parsed object is absent, null, or a string.                *)
(***************************************************************************)

Absent == [tag |-> "absent"]

Null == [tag |-> "null"]

Str(s) == [tag |-> "str", v |-> s]

\* {...state, ...parsed.newState} for one optional string field.
Spread(old, reply) ==
    CASE reply.tag = "absent" -> old
      [] reply.tag = "null"   -> Undefined
      [] reply.tag = "str"    -> Some(reply.v)

\* !x for a field of a parsed object.
Falsy(reply) == reply.tag # "str" \/ reply.v = ""

\* The try block of generateNextQuestion (AI variant): the value it returns,
\* or Threw when requestAiResponse, extractJson or the required-field test
\* throws.
tryNextQuestionAi(state, ai) ==
    IF ai.kind # "parsed" THEN Threw
    ELSE LET parsed == ai.value IN
         IF Falsy(parsed.message) \/ ~parsed.hasNewState
               \/ Falsy(parsed.newState.conversationPhase)
         THEN Threw
         ELSE LET newState ==
                    [symptom          |-> Spread(state.symptom, parsed.newState.symptom),
                     bodyLocation     |-> Spread(state.bodyLocation, parsed.newState.bodyLocation),
                     duration         |-> Spread(state.duration, parsed.newState.duration),
                     contextualInfo   |-> Spread(state.contextualInfo, parsed.newState.contextualInfo),
                     severity         |-> state.severity,
                     conversationPhase |-> parsed.newState.conversationPhase.v,
                     requiresLocation |->
                        IF parsed.newState.requiresLocation \in {"true", "false"}
                        THEN parsed.newState.requiresLocation = "true"
                        ELSE state.requiresLocation]
              IN  Question(parsed.message.v, newState,
                           IF Falsy(parsed.phase) THEN newState.conversationPhase
                           ELSE parsed.phase.v)

\* try { ... } catch { return fallbackNextQuestion(state, userMessage) }
generateNextQuestionAi(state, userMessage, ai) ==
    LET attempt == tryNextQuestionAi(state, ai)
    IN  IF attempt.threw THEN fallbackNextQuestion(state, userMessage) ELSE attempt

(***************************************************************************)
(* The severity variant (part_000, lines 448-831).                         *)
(***************************************************************************)

\* determineLocationRequirement: false for an empty symptom without asking
\* the model; Boolean(parsed.requiresLocation) when the reply parses; false
\* when the request or the parse throws.
determineLocationRequirement(symptom, ai) ==
    IF symptom = "" THEN FALSE
    ELSE IF ai.kind = "parsed" THEN ai.value.requiresLocation = "true"
    ELSE FALSE

fallbackMessages(phase) ==
    CASE phase = "location" -> "Where exactly are you experiencing this symptom?"
      [] phase = "duration" -> "How long have you been experiencing this symptom?"
      [] phase = "context"  -> "Please tell me more about this symptom. Are there any triggers or patterns?"
      [] phase = "severity" -> "On a scale of 1 to 10, how severe is this symptom right now?"
      [] phase = "summary"  -> "Thank you for sharing everything. Is there anything else you'd like me to include before I create your summary?"

\* generatePhaseQuestion: parsed.message || fallbackMessages[phase], and
\* fallbackMessages[phase] when the request or the parse throws.
generatePhaseQuestion(phase, ai) ==
    IF phase \notin {"location", "duration", "context", "severity", "summary"}
    THEN "Thank you for sharing that information."
    ELSE IF ai.kind = "parsed" /\ ~Falsy(ai.value.message)
    THEN ai.value.message.v
    ELSE fallbackMessages(phase)

\* ai.loc is the round trip made by determineLocationRequirement (phase
\* 'symptom' only), ai.question the one made by generatePhaseQuestion.
\* A severity variant that steps as the deterministic engine does, without
\* a severity phase.
generateNextQuestionSevAsDet(state, userMessage, ai) ==
    generateNextQuestionDet(state, userMessage)

generateNextQuestionSev(state, userMessage, ai) ==
    LET requiresLocation == determineLocationRequirement(userMessage, ai.loc)
        stored ==
            CASE state.conversationPhase = "symptom" ->
                    [state EXCEPT !.symptom = Some(userMessage),
                                  !.requiresLocation = requiresLocation]
              [] state.conversationPhase = "location" ->
                    [state EXCEPT !.bodyLocation = Some(userMessage)]
              [] state.conversationPhase = "duration" ->
                    [state EXCEPT !.duration = Some(userMessage)]
              [] state.conversationPhase = "context" ->
                    [state EXCEPT !.contextualInfo = Some(userMessage)]
              [] state.conversationPhase = "severity" ->
                    [state EXCEPT !.severity = Some(userMessage)]
              [] OTHER -> state
        nextPhase ==
            CASE state.conversationPhase = "initial"  -> "symptom"
              [] state.conversationPhase = "symptom"  ->
                    IF requiresLocation THEN "location" ELSE "duration"
              [] state.conversationPhase = "location" -> "duration"
              [] state.conversationPhase = "duration" -> "context"
              [] state.conversationPhase = "context"  -> "severity"
              [] state.conversationPhase = "severity" -> "summary"
              [] OTHER -> "summary"
        newState == [stored EXCEPT !.conversationPhase = nextPhase]
    IN  IF nextPhase = "symptom"
        THEN Question("What symptom are you experiencing?", newState, "symptom")
        ELSE Question(generatePhaseQuestion(nextPhase, ai.question), newState, nextPhase)

(***************************************************************************)
(* The call the chat component makes: generateNextQuestion of the build's  *)
(* conversation service.                                                   *)
(***************************************************************************)

NoAi == [kind |-> "none"]

generateNextQuestion(v, state, userMessage, ai) ==
    CASE v = "det" -> generateNextQuestionDet(state, userMessage)
      [] v = "ai"  -> generateNextQuestionAi(state, userMessage, ai)
      [] v = "sev" -> generateNextQuestionSev(state, userMessage, ai)

(***************************************************************************)
(* Summary and recommendation generators.                                  *)
(***************************************************************************)

\* fallbackSummary (AI variant): the labelled sections in fixed order.
fallbackSummary(state, additionalInfo) ==
    "**Symptom Summary**\n\n"
    \o "**Chief Complaint:** " \o Interpolate(state.symptom) \o "\n\n"
    \o (IF Truthy(state.bodyLocation)
        THEN "**Location:** " \o state.bodyLocation[1] \o "\n\n" ELSE "")
    \o "**Duration:** " \o Interpolate(state.duration) \o "\n\n"
    \o "**Additional Details:** " \o Interpolate(state.contextualInfo)
    \o (IF Truthy(additionalInfo)
        THEN "\n\n**Further Information:** " \o additionalInfo[1] ELSE "")

\* advice is optional in what a generator returns: the AI variant hands the
\* parsed reply back without testing it.
Recommendation(recommendation, urgencyLevel, advice) ==
    [threw |-> FALSE, recommendation |-> recommendation,
     urgencyLevel |-> urgencyLevel, advice |-> Some(advice)]

\* A classifier that looks for 'chest pain' as typed, without folding the
\* case of the symptom.
fallbackRecommendationCaseSensitive(state, additionalInfo) ==
    IF includes(OrElse(state.symptom, ""), "chest pain")
    THEN Recommendation("Call 999 immediately", "urgent",
            "This requires immediate emergency attention. Please call 999 or go to A&E right away.")
    ELSE Recommendation("Contact your GP or call 111", "high",
            "You should book a GP appointment within the next 24-48 hours, or call 111 for further guidance if symptoms worsen.")

\* A classifier that gives the generic self-care advice whatever the symptom.
fallbackRecommendationGenericAdvice(state, additionalInfo) ==
    Recommendation("Self-care and monitoring", "low",
        "Monitor your symptoms, stay hydrated, and rest. If symptoms persist or worsen, consider contacting your GP."
        \o " Continue to monitor your symptoms and log any changes in this app.")

\* fallbackRecommendation (AI variant): the ordered decision list.
fallbackRecommendation(state, additionalInfo) ==
    LET symptom  == toLowerCase(OrElse(state.symptom, ""))
        duration == toLowerCase(OrElse(state.duration, ""))
        context  == toLowerCase(OrElse(state.contextualInfo, "") \o " "
                                \o OrElse(additionalInfo, ""))
        selfCareAdvice ==
            IF includes(symptom, "headache")
            THEN "Stay hydrated, rest in a quiet, dark room, and consider over-the-counter pain relief such as paracetamol or ibuprofen."
            ELSE IF includes(symptom, "cough")
            THEN "Stay hydrated, rest, use honey and lemon for soothing, and consider over-the-counter cough remedies if needed."
            ELSE IF includes(symptom, "sore throat")
            THEN "Gargle with warm salt water, stay hydrated, and consider throat lozenges or over-the-counter pain relief."
            ELSE IF includes(symptom, "pain")
                    /\ (includes(symptom, "leg") \/ includes(symptom, "muscle"))
            THEN "Rest the affected area, apply ice if swollen, and consider over-the-counter anti-inflammatory medication such as ibuprofen."
            ELSE IF includes(symptom, "fatigue")
            THEN "Ensure adequate sleep, maintain a balanced diet, stay hydrated, and consider gentle exercise."
            ELSE "Monitor your symptoms, stay hydrated, and rest. If symptoms persist or worsen, consider contacting your GP."
    IN  IF \/ includes(symptom, "chest pain")
           \/ includes(symptom, "difficulty breathing")
           \/ includes(symptom, "severe bleeding")
           \/ includes(symptom, "loss of consciousness")
           \/ includes(symptom, "seizure")
           \/ (includes(symptom, "headache")
                 /\ (includes(context, "sudden") \/ includes(context, "worst ever")))
        THEN Recommendation("Call 999 immediately", "urgent",
                "This requires immediate emergency attention. Please call 999 or go to A&E right away.")
        ELSE IF \/ includes(symptom, "high fever")
                \/ includes(symptom, "persistent vomiting")
                \/ includes(symptom, "severe pain")
                \/ (includes(symptom, "pain") /\ includes(context, "severe"))
                \/ includes(duration, "week")
                \/ includes(duration, "month")
        THEN Recommendation("Contact your GP or call 111", "high",
                "You should book a GP appointment within the next 24-48 hours, or call 111 for further guidance if symptoms worsen.")
        ELSE IF \/ includes(symptom, "persistent")
                \/ (includes(symptom, "cough") /\ includes(duration, "week"))
                \/ includes(symptom, "recurring")
        THEN Recommendation("Book a GP appointment", "medium",
                "Consider booking a GP appointment within the next week to discuss these symptoms further.")
        ELSE Recommendation("Self-care and monitoring", "low",
                selfCareAdvice \o " Continue to monitor your symptoms and log any changes in this app.")

Summary(text, tips) == [threw |-> FALSE, text |-> text, tips |-> tips]

\* The try block of generateSummary (AI variant).
trySummaryAi(ai) ==
    IF ai.kind # "parsed" THEN Threw
    ELSE IF Falsy(ai.value.summary) THEN Threw
    ELSE Summary(ai.value.summary.v, <<>>)

\* try { ... } catch { return fallbackSummary(state, additionalInfo) }
generateSummaryAi(state, additionalInfo, ai) ==
    LET attempt == trySummaryAi(ai)
    IN  IF attempt.threw THEN Summary(fallbackSummary(state, additionalInfo), <<>>)
        ELSE attempt

\* The try block of generateRecommendation (AI variant): the parsed object
\* itself is returned once recommendation and urgencyLevel are truthy.
tryRecommendationAi(ai) ==
    IF ai.kind # "parsed" THEN Threw
    ELSE IF Falsy(ai.value.recommendation) \/ Falsy(ai.value.urgencyLevel) THEN Threw
    ELSE [threw |-> FALSE,
          recommendation |-> ai.value.recommendation.v,
          urgencyLevel   |-> ai.value.urgencyLevel.v,
          advice         |-> Spread(Undefined, ai.value.advice)]

\* try { ... } catch { return fallbackRecommendation(state, context?.additionalInfo) }
generateRecommendationAi(state, additionalInfo, ai) ==
    LET attempt == tryRecommendationAi(ai)
    IN  IF attempt.threw THEN fallbackRecommendation(state, additionalInfo) ELSE attempt

\* generateSummary of the deterministic service.
generateSummaryDet(state, additionalInfo) ==
    Summary("**Symptom Summary**\n\n"
            \o "**Chief Complaint:** " \o Interpolate(state.symptom) \o "\n\n"
            \o (IF Truthy(state.bodyLocation)
                THEN "**Location:** " \o state.bodyLocation[1] \o "\n\n" ELSE "")
            \o "**Duration:** " \o Interpolate(state.duration) \o "\n\n"
            \o "**Additional Details:** " \o Interpolate(state.contextualInfo)
            \o (IF Truthy(additionalInfo)
                THEN "\n\n**Further Information:** " \o additionalInfo[1] ELSE ""),
            <<>>)

\* generateRecommendation of the deterministic service: the Urgency
\* Classifier.  The context is contextualInfo alone.
\* A classifier that tests the medium tier's 'persistent' before the
\* emergency keywords.
generateRecommendationDetMediumFirst(state) ==
    IF includes(toLowerCase(OrElse(state.symptom, "")), "persistent")
    THEN Recommendation("Book a GP appointment", "medium",
            "Consider booking a GP appointment within the next week to discuss these symptoms further.")
    ELSE fallbackRecommendation(state, Undefined)

\* A classifier that tests 'cough for weeks' before every other condition.
generateRecommendationDetCoughWeekFirst(state) ==
    IF /\ includes(toLowerCase(OrElse(state.symptom, "")), "cough")
       /\ includes(toLowerCase(OrElse(state.duration, "")), "week")
    THEN Recommendation("Book a GP appointment", "medium",
            "Consider booking a GP appointment within the next week to discuss these symptoms further.")
    ELSE fallbackRecommendation(state, Undefined)

generateRecommendationDet(state) ==
    LET symptom  == toLowerCase(OrElse(state.symptom, ""))
        duration == toLowerCase(OrElse(state.duration, ""))
        context  == toLowerCase(OrElse(state.contextualInfo, ""))
        selfCareAdvice ==
            IF includes(symptom, "headache")
            THEN "Stay hydrated, rest in a quiet, dark room, and consider over-the-counter pain relief such as paracetamol or ibuprofen."
            ELSE IF includes(symptom, "cough")
            THEN "Stay hydrated, rest, use honey and lemon for soothing, and consider over-the-counter cough remedies if needed."
            ELSE IF includes(symptom, "sore throat")
            THEN "Gargle with warm salt water, stay hydrated, and consider throat lozenges or over-the-counter pain relief."
            ELSE IF includes(symptom, "pain")
                    /\ (includes(symptom, "leg") \/ includes(symptom, "muscle"))
            THEN "Rest the affected area, apply ice if swollen, and consider over-the-counter anti-inflammatory medication such as ibuprofen."
            ELSE IF includes(symptom, "fatigue")
            THEN "Ensure adequate sleep, maintain a balanced diet, stay hydrated, and consider gentle exercise."
            ELSE "Monitor your symptoms, stay hydrated, and rest. If symptoms persist or worsen, consider contacting your GP."
    IN  IF \/ includes(symptom, "chest pain")
           \/ includes(symptom, "difficulty breathing")
           \/ includes(symptom, "severe bleeding")
           \/ includes(symptom, "loss of consciousness")
           \/ includes(symptom, "seizure")
           \/ (includes(symptom, "headache")
                 /\ (includes(context, "sudden") \/ includes(context, "worst ever")))
        THEN Recommendation("Call 999 immediately", "urgent",
                "This requires immediate emergency attention. Please call 999 or go to A&E right away.")
        ELSE IF \/ includes(symptom, "high fever")
                \/ includes(symptom, "persistent vomiting")
                \/ includes(symptom, "severe pain")
                \/ (includes(symptom, "pain") /\ includes(context, "severe"))
                \/ includes(duration, "week")
                \/ includes(duration, "month")
        THEN Recommendation("Contact your GP or call 111", "high",
                "You should book a GP appointment within the next 24-48 hours, or call 111 for further guidance if symptoms worsen.")
        ELSE IF \/ includes(symptom, "persistent")
                \/ (includes(symptom, "cough") /\ includes(duration, "week"))
                \/ includes(symptom, "recurring")
        THEN Recommendation("Book a GP appointment", "medium",
                "Consider booking a GP appointment within the next week to discuss these symptoms further.")
        ELSE Recommendation("Self-care and monitoring", "low",
                selfCareAdvice \o " Continue to monitor your symptoms and log any changes in this app.")

\* parsed.tips || [] for the tips of a parsed summary reply.
TipsOf(reply) == IF reply.tag = "list" THEN reply.v ELSE <<>>

\* generateSummary (severity variant): the reply's summary and tips, or the
\* templated HTML with the two generic tips.
generateSummarySev(state, additionalInfo, ai) ==
    IF ai.kind = "parsed" /\ ~Falsy(ai.value.summary)
    THEN Summary(ai.value.summary.v, TipsOf(ai.value.tips))
    ELSE Summary(
            "<section>\n  <h3>Symptom Summary</h3>\n"
            \o "  <p><strong>Chief Complaint:</strong> " \o OrElse(state.symptom, "Not provided") \o "</p>\n  "
            \o (IF Truthy(state.bodyLocation)
                THEN "<p><strong>Location:</strong> " \o state.bodyLocation[1] \o "</p>" ELSE "")
            \o "\n  <p><strong>Duration:</strong> " \o OrElse(state.duration, "Not provided") \o "</p>\n"
            \o "  <p><strong>Severity:</strong> " \o OrElse(state.severity, "Not provided") \o "</p>\n"
            \o "  <p><strong>Details shared:</strong> "
            \o OrElse(state.contextualInfo, "No additional context provided.") \o "</p>\n  "
            \o (IF Truthy(additionalInfo)
                THEN "<p><strong>Further Information:</strong> " \o additionalInfo[1] \o "</p>" ELSE "")
            \o "\n</section>",
            <<"Keep logging symptoms daily so your clinician can spot patterns.",
              "Stay hydrated and rest as needed while monitoring changes.">>)

\* generateRecommendation (severity variant): the parsed reply when all
\* three fields are truthy, else the generic low-urgency record.
generateRecommendationSev(ai) ==
    IF ai.kind = "parsed" /\ ~Falsy(ai.value.recommendation)
          /\ ~Falsy(ai.value.urgencyLevel) /\ ~Falsy(ai.value.advice)
    THEN [threw |-> FALSE,
          recommendation |-> ai.value.recommendation.v,
          urgencyLevel   |-> ai.value.urgencyLevel.v,
          advice         |-> Some(ai.value.advice.v)]
    ELSE Recommendation("Monitor symptoms and contact a clinician if they worsen", "low",
            "Keep tracking how you feel, rest, stay hydrated, and book a GP appointment if anything changes or you become more concerned.")

generateSummary(v, state, additionalInfo, ai) ==
    CASE v = "det" -> generateSummaryDet(state, additionalInfo)
      [] v = "ai"  -> generateSummaryAi(state, additionalInfo, ai)
      [] v = "sev" -> generateSummarySev(state, additionalInfo, ai)

generateRecommendation(v, state, additionalInfo, ai) ==
    CASE v = "det" -> generateRecommendationDet(state)
      [] v = "ai"  -> generateRecommendationAi(state, additionalInfo, ai)
      [] v = "sev" -> generateRecommendationSev(ai)

(***************************************************************************)
(* Inputs of the model.                                                    *)
(***************************************************************************)

\* The services a build can ship.
Variants == {"det", "ai", "sev"}

\* What the user types into the chat box.  Asked for the symptom: a text
\* with a location keyword in mixed case and surrounding blanks, a text
\* without one, and blanks.  Asked anything else: an answer, or blanks.
Inputs(phase) ==
    IF phase = "symptom" THEN {"  Back PAIN ", "fatigue", "   "}
    ELSE {" two days ", "   "}

\* What the user types into an edit box of the summary screen.
EditTexts == {"Back PAIN", " fatigue ", " "}

\* Texts the symptom field of a state can hold at the start of a call.
Texts == {"Back PAIN", "fatigue"}

\* The wording of a question the model wrote.
AiQuestion == "Thanks. Could you tell me a little more?"

\* How many edits of the summary screen a session saves.
MaxEdits == 1

\* How many edits are explored in a session of each service.
EditBudget(v) == IF v = "ai" THEN 0 ELSE MaxEdits

\* How long the log can grow.
MaxMessages == 14

\* How often Confirm & Save is clicked.  The handler does not depend on the
\* service: its clicks are explored in sessions of the deterministic one.
MaxSaves == 2

SaveBudget(v) == IF v = "det" THEN MaxSaves ELSE 0

Throw == [kind |-> "throw"]

Unparsable == [kind |-> "unparsable"]

Parsed(v) == [kind |-> "parsed", value |-> v]

\* The phases the prompt of the AI variant offers the model.
AiPhases == {"symptom", "location", "duration", "context", "summary"}

NoNewState ==
    [symptom |-> Absent, bodyLocation |-> Absent, duration |-> Absent,
     contextualInfo |-> Absent, conversationPhase |-> Absent,
     requiresLocation |-> "absent"]

\* An optional field of a state as the model writes it into its reply.
Reply(f) == IF f = Undefined THEN Absent ELSE Str(f[1])

\* The newState of a model that follows its prompt to the letter: the
\* message stored in the field of the phase, the next phase of the table.
FaithfulNewState(state, userMessage) ==
    LET ns == fallbackNextQuestion(state, userMessage).newState
    IN  [symptom |-> Reply(ns.symptom), bodyLocation |-> Reply(ns.bodyLocation),
         duration |-> Reply(ns.duration), contextualInfo |-> Reply(ns.contextualInfo),
         conversationPhase |-> Str(ns.conversationPhase),
         requiresLocation |-> IF ns.requiresLocation THEN "true" ELSE "false"]

\* The newState objects a reply to generateNextQuestion (AI variant) can
\* carry.  Nothing but the presence of conversationPhase is validated, so
\* besides the faithful one: only a phase, any of those the prompt offers;
\* a phase and a requiresLocation; a phase and a body location; a phase and
\* a null for the symptom.
AiNewStates(state, userMessage) ==
    {FaithfulNewState(state, userMessage)}
    \cup {[NoNewState EXCEPT !.conversationPhase = Str(p)] : p \in AiPhases}
    \cup {[NoNewState EXCEPT !.conversationPhase = Str("duration"),
                             !.requiresLocation = r] : r \in {"true", "false"}}
    \cup {[NoNewState EXCEPT !.conversationPhase = Str("duration"),
                             !.bodyLocation = Str(userMessage)],
          [NoNewState EXCEPT !.conversationPhase = Str("summary"),
                             !.symptom = Null]}

\* Replies to generateNextQuestion (AI variant): the well-formed ones
\* without a top-level phase; well-formed ones whose top-level phase is
\* given; and one without message, one without newState, one without
\* newState.conversationPhase.
NextQuestionReplies(state, userMessage) ==
    {[message |-> Str(AiQuestion), hasNewState |-> TRUE, newState |-> ns, phase |-> Absent] :
        ns \in AiNewStates(state, userMessage)}
    \cup {[message |-> Str(AiQuestion), hasNewState |-> TRUE,
           newState |-> [NoNewState EXCEPT !.conversationPhase = Str("duration")],
           phase |-> Str(q)] : q \in {"duration", "summary"}}
    \cup {[message |-> Absent, hasNewState |-> TRUE,
           newState |-> [NoNewState EXCEPT !.conversationPhase = Str("duration")],
           phase |-> Absent],
          [message |-> Str(AiQuestion), hasNewState |-> FALSE,
           newState |-> NoNewState, phase |-> Absent],
          [message |-> Str(AiQuestion), hasNewState |-> TRUE,
           newState |-> NoNewState, phase |-> Absent]}

\* What the round trips of one generateNextQuestion call can come to.
NextQuestionOutcomes(v, state, userMessage) ==
    CASE v = "det" -> {NoAi}
      [] v = "ai"  ->
            {Throw, Unparsable}
            \cup {Parsed(r) : r \in NextQuestionReplies(state, userMessage)}
      [] v = "sev" ->
            {[loc |-> l, question |-> q] :
                l \in IF state.conversationPhase = "symptom"
                      THEN {Throw, Unparsable}
                           \cup {Parsed([requiresLocation |-> r]) : r \in {"absent", "true", "false"}}
                      ELSE {NoAi},
                q \in {Throw, Unparsable, Parsed([message |-> Absent]),
                       Parsed([message |-> Str(AiQuestion)])}}

\* Whether the model-backed path of the call failed: the try block of the
\* AI variant threw; in the severity variant, the round trip that decides
\* the transition (determineLocationRequirement's) did, or, in the other
\* phases, generatePhaseQuestion's.
AiFailed(v, state, ai) ==
    CASE v = "det" -> FALSE
      [] v = "ai"  -> tryNextQuestionAi(state, ai).threw
      [] v = "sev" ->
            IF state.conversationPhase = "symptom"
            THEN ai.loc.kind # "parsed"
            ELSE ai.question.kind # "parsed" \/ Falsy(ai.question.value.message)

AiSummary == "The patient reports the symptoms described."

SummaryOutcomes(v) ==
    IF v = "det" THEN {NoAi}
    ELSE {Throw, Unparsable,
          Parsed([summary |-> Absent, tips |-> Absent]),
          Parsed([summary |-> Str(AiSummary),
                  tips |-> [tag |-> "list", v |-> <<"Keep a symptom diary.">>]]),
          Parsed([summary |-> Str(AiSummary),
                  tips |-> [tag |-> "list",
                            v |-> <<"Keep a symptom diary.", "Drink water.",
                                    "Rest.", "Avoid screens.">>]])}

RecommendationOutcomes(v) ==
    IF v = "det" THEN {NoAi}
    ELSE {Throw, Unparsable,
          Parsed([recommendation |-> Str("Contact your GP"), urgencyLevel |-> Absent,
                  advice |-> Str("Rest and monitor.")]),
          Parsed([recommendation |-> Str("Contact your GP"), urgencyLevel |-> Str("medium"),
                  advice |-> Absent]),
          Parsed([recommendation |-> Str("Contact your GP"), urgencyLevel |-> Str("critical"),
                  advice |-> Str("Please book an appointment this week.")]),
          Parsed([recommendation |-> Str("Contact your GP"), urgencyLevel |-> Str("medium"),
                  advice |-> Str("Please book an appointment this week.")])}

\* Whether the model-backed path of a summary / recommendation call failed.
SummaryFailed(v, ai) ==
    v # "det" /\ (ai.kind # "parsed" \/ Falsy(ai.value.summary))

RecommendationFailed(v, ai) ==
    /\ v # "det"
    /\ \/ ai.kind # "parsed"
       \/ Falsy(ai.value.recommendation)
       \/ Falsy(ai.value.urgencyLevel)
       \/ Falsy(ai.value.advice)

\* Whether generateRecommendation took its catch branch.
RecommendationFellBack(v, ai) ==
    CASE v = "det" -> FALSE
      [] v = "ai"  -> tryRecommendationAi(ai).threw
      [] v = "sev" -> \/ ai.kind # "parsed"
                      \/ Falsy(ai.value.recommendation)
                      \/ Falsy(ai.value.urgencyLevel)
                      \/ Falsy(ai.value.advice)

(***************************************************************************)
(* The gateway of the AI variant (part_000, lines 26-137).                 *)
(***************************************************************************)

\* import.meta.env as the build sets it: the provider variable unset, empty,
\* a supported provider or another word; each key unset, empty or given.
Envs ==
    [VITE_AI_PROVIDER : {Undefined, Some(""), Some("openai"), Some("gemini"), Some("azure")},
     VITE_OPENAI_API_KEY : {Undefined, Some(""), Some("sk-1")},
     VITE_GEMINI_API_KEY : {Undefined, Some(""), Some("AIza-1")}]

\* A build with a Gemini key and nothing else.
GeminiEnv ==
    [VITE_AI_PROVIDER |-> Undefined, VITE_OPENAI_API_KEY |-> Undefined,
     VITE_GEMINI_API_KEY |-> Some("AIza-1")]

\* VITE_AI_PROVIDER || (openAiApiKey ? 'openai' : geminiApiKey ? 'gemini' : undefined)
configuredProvider(env) ==
    IF Truthy(env.VITE_AI_PROVIDER) THEN env.VITE_AI_PROVIDER
    ELSE IF Truthy(env.VITE_OPENAI_API_KEY) THEN Some("openai")
    ELSE IF Truthy(env.VITE_GEMINI_API_KEY) THEN Some("gemini")
    ELSE Undefined

\* What the network makes of a fetch: the fetch rejects; the status is not
\* OK; the body holds no content; or the body holds a reply, told here by
\* what extractJson will make of its text.
NetsOf(replies) ==
    {[kind |-> "rejected"], [kind |-> "notOk"], [kind |-> "noContent"]}
    \cup {[kind |-> "content", reply |-> r] : r \in replies}

\* The network's answers to the prompt of generateNextQuestion.
Nets ==
    NetsOf({Unparsable,
            Parsed([message |-> Str(AiQuestion), hasNewState |-> TRUE,
                    newState |-> [NoNewState EXCEPT
                                     !.conversationPhase = Str("duration")],
                    phase |-> Absent]),
            Parsed([message |-> Absent, hasNewState |-> TRUE,
                    newState |-> NoNewState, phase |-> Absent])})

\* The network's answers to the prompts of generateSummary and
\* generateRecommendation.
SummaryNets == NetsOf(SummaryOutcomes("ai") \ {Throw})

RecommendationNets == NetsOf(RecommendationOutcomes("ai") \ {Throw})

\* A requestAiResponse call that threw, after the fetches listed.
GatewayError(error, fetched) ==
    [threw |-> TRUE, error |-> error, fetched |-> fetched, reply |-> Unparsable]

\* The one fetch of requestAiResponse and what follows it.
Fetch(provider, label, net) ==
    CASE net.kind = "rejected"  -> GatewayError("fetch failed", <<provider>>)
      [] net.kind = "notOk"     -> GatewayError(label \o " request failed: ", <<provider>>)
      [] net.kind = "noContent" -> GatewayError(label \o " response missing content", <<provider>>)
      [] net.kind = "content"   ->
            [threw |-> FALSE, error |-> "", fetched |-> <<provider>>, reply |-> net.reply]

\* A gateway that asks the configured provider without looking for its key.
requestAiResponseUnchecked(env, net) ==
    IF configuredProvider(env) = Some("openai")
    THEN Fetch("openai", "OpenAI", net)
    ELSE Fetch("gemini", "Gemini", net)

requestAiResponse(env, net) ==
    IF ~Truthy(configuredProvider(env))
    THEN GatewayError("AI provider is not configured. Provide either VITE_OPENAI_API_KEY or VITE_GEMINI_API_KEY.",
                      <<>>)
    ELSE IF configuredProvider(env) = Some("openai")
    THEN IF ~Truthy(env.VITE_OPENAI_API_KEY)
         THEN GatewayError("Missing OpenAI API key", <<>>)
         ELSE Fetch("openai", "OpenAI", net)
    ELSE IF ~Truthy(env.VITE_GEMINI_API_KEY)
         THEN GatewayError("Missing Gemini API key", <<>>)
         ELSE Fetch("gemini", "Gemini", net)

\* A generateNextQuestion that asks the gateway again when its call fails.
nextQuestionGatewayCallsRetrying(env, nets) ==
    IF requestAiResponse(env, nets[1]).threw
    THEN <<requestAiResponse(env, nets[1]), requestAiResponse(env, nets[2])>>
    ELSE <<requestAiResponse(env, nets[1])>>

\* The requestAiResponse calls one generateNextQuestion call (AI variant)
\* makes, nets[i] being what the network would make of the i-th: the one of
\* the try block; the catch block calls fallbackNextQuestion only.
nextQuestionGatewayCalls(env, nets) == <<requestAiResponse(env, nets[1])>>

\* The same for generateSummary and generateRecommendation (AI variant).
summaryGatewayCalls(env, nets) == <<requestAiResponse(env, nets[1])>>

recommendationGatewayCalls(env, nets) == <<requestAiResponse(env, nets[1])>>

\* The ways one generateNextQuestion call can go: whether its model-backed
\* path failed, and what it returned.
NextQuestionCalls(v, state, userMessage) ==
    {[aiFailed |-> AiFailed(v, state, ai),
      result |-> generateNextQuestion(v, state, userMessage, ai)] :
        ai \in NextQuestionOutcomes(v, state, userMessage)}

\* The ways one generateSummary call can go.
SummaryCalls(v, state, additionalInfo) ==
    {[aiFailed |-> SummaryFailed(v, ai),
      result |-> generateSummary(v, state, additionalInfo, ai)] :
        ai \in SummaryOutcomes(v)}

\* The ways one generateRecommendation call can go.
RecommendationCalls(v, state, additionalInfo) ==
    {[aiFailed |-> RecommendationFailed(v, ai),
      fellBack |-> RecommendationFellBack(v, ai),
      result |-> generateRecommendation(v, state, additionalInfo, ai)] :
        ai \in RecommendationOutcomes(v)}

(***************************************************************************)
(* generateRelatedSymptomInsight of the severity variant (part_000,        *)
(* lines 497-534 and 787-830).                                             *)
(***************************************************************************)

\* A build without any key.
NoKeyEnv ==
    [VITE_AI_PROVIDER |-> Undefined, VITE_OPENAI_API_KEY |-> Undefined,
     VITE_GEMINI_API_KEY |-> Undefined]

\* requestAiResponse of the severity variant: genAI is null without a Gemini
\* key; otherwise one generateContent call, which rejects or yields a text.
requestAiResponseSev(buildEnv, net) ==
    IF ~Truthy(buildEnv.VITE_GEMINI_API_KEY)
    THEN [threw |-> TRUE, error |-> "Missing Gemini API key", requests |-> 0, text |-> ""]
    ELSE IF net.kind = "rejected"
    THEN [threw |-> TRUE, error |-> "generateContent failed", requests |-> 1, text |-> ""]
    ELSE IF net.text = ""
    THEN [threw |-> TRUE, error |-> "Gemini response missing content", requests |-> 1,
          text |-> ""]
    ELSE [threw |-> FALSE, error |-> "", requests |-> 1, text |-> net.text]

\* parsed.name, for what JSON.parse returned: Threw stands for the TypeError
\* of reading a property of null, [t |-> "undefined"] for a missing property.
JsonProperty(parsed, name) ==
    IF parsed.t = "null" THEN Threw
    ELSE IF parsed.t = "object" /\ name \in DOMAIN parsed.v
    THEN [threw |-> FALSE, value |-> parsed.v[name]]
    ELSE [threw |-> FALSE, value |-> [t |-> "undefined"]]

\* !value, for a JSON value.
JsonFalsy(value) ==
    \/ value.t \in {"undefined", "null", "false"}
    \/ value.t = "string" /\ value.v = ""
    \/ value.t = "number" /\ value.v \in {"0", "00"}

\* The placeholder the catch block returns.
NoLinkageInsight ==
    [t |-> "object",
     v |-> [summary |-> [t |-> "string",
                         v |-> "Recent symptoms were reviewed but no automated linkage could be confirmed."],
            recommendation |-> [t |-> "string",
                                v |-> "Share this list with your GP if you notice a recurring pattern or if symptoms cluster closely together."],
            linkedSymptomIds |-> [t |-> "array", v |-> <<>>]]]

\* The test of the try block on what extractJson returned.
relatedInsightParsed(parsed) ==
    IF parsed.threw THEN Threw
    ELSE IF JsonProperty(parsed.value, "summary").threw THEN Threw
    ELSE IF \/ JsonFalsy(JsonProperty(parsed.value, "summary").value)
            \/ JsonFalsy(JsonProperty(parsed.value, "recommendation").value)
            \/ JsonProperty(parsed.value, "linkedSymptomIds").value.t # "array"
         THEN Threw
    ELSE [threw |-> FALSE, value |-> parsed.value]

\* The try block after its requestAiResponse: the parsed reply, or Threw.
relatedInsightOf(aiResponse) ==
    IF aiResponse.threw THEN Threw
    ELSE relatedInsightParsed(extractJson(aiResponse.text))

\* A generateRelatedSymptomInsight without its catch block.
generateRelatedSymptomInsightUncaught(priorSymptoms, aiResponse, attempt) ==
    IF Len(priorSymptoms) = 0
    THEN [threw |-> FALSE, value |-> [t |-> "null"], requests |-> 0]
    ELSE [threw |-> attempt.threw,
          value |-> IF attempt.threw THEN [t |-> "undefined"] ELSE attempt.value,
          requests |-> aiResponse.requests]

\* generateRelatedSymptomInsight, given what its requestAiResponse call
\* would return and what its try block would make of that; requests counts
\* the requests sent through the gateway.
generateRelatedSymptomInsight(priorSymptoms, aiResponse, attempt) ==
    IF Len(priorSymptoms) = 0
    THEN [threw |-> FALSE, value |-> [t |-> "null"], requests |-> 0]
    ELSE [threw |-> FALSE,
          value |-> IF attempt.threw THEN NoLinkageInsight ELSE attempt.value,
          requests |-> aiResponse.requests]

(***************************************************************************)
(* deriveSeverityLevel (ChatInterface.tsx, lines 19-80).                   *)
(***************************************************************************)

\* Object.entries(descriptorSeverityMap), in the order of the literal.
descriptorSeverityMap ==
    << <<"mild", "low">>, <<"light", "low">>, <<"moderate", "medium">>,
       <<"moderate-to-severe", "high">>, <<"severe", "high">>, <<"intense", "high">> >>

criticalSymptomKeywords == {"chest", "breath", "breathing", "vision", "speech", "numb arm"}

lowPrioritySymptomKeywords == {"headache", "migraine", "tension headache"}

RECURSIVE firstDigitFrom(_, _)
firstDigitFrom(s, i) ==
    IF i > Len(s) THEN 0
    ELSE IF charAt(s, i) \in Digits THEN i
    ELSE firstDigitFrom(s, i + 1)

DigitValue(c) == CHOOSE n \in 0..9 : <<"0", "1", "2", "3", "4", "5", "6", "7", "8", "9">>[n + 1] = c

RECURSIVE digitsToNumber(_)
digitsToNumber(digits) ==
    IF Len(digits) = 0 THEN 0
    ELSE 10 * digitsToNumber(SubSeq(digits, 1, Len(digits) - 1))
         + DigitValue(charAt(digits, Len(digits)))

\* A number as parseFloat reads it from digits '.' digits: its whole part and
\* whether its fraction is more than zero.
ScoreRead(s, from, intEnd) ==
    [whole |-> digitsToNumber(SubSeq(s, from, intEnd - 1)),
     fraction |->
        /\ charAt(s, intEnd) = "."
        /\ charAt(s, intEnd + 1) \in Digits
        /\ \E k \in intEnd + 1 .. endOfDigits(s, intEnd + 1) - 1 : charAt(s, k) # "0"]

\* if (value > 10) value = 10; if (value < 0) value = 0
ScoreClamped(score) ==
    IF score.whole > 10 \/ (score.whole = 10 /\ score.fraction)
    THEN [whole |-> 10, fraction |-> FALSE]
    ELSE IF score.whole < 0 THEN [whole |-> 0, fraction |-> FALSE]
    ELSE score

\* score <= k
ScoreAtMost(score, k) == score.whole < k \/ (score.whole = k /\ ~score.fraction)

\* The match of /(\d+(\.\d+)?)/ starting at the first digit, clamped.
parseSeverityScoreAt(s, from) ==
    Some(ScoreClamped(ScoreRead(s, from, endOfDigits(s, from))))

\* parseSeverityScore: null is <<>>, a score is <<score>>.
parseSeverityScore(severityText) ==
    IF ~Truthy(severityText) THEN Undefined
    ELSE IF firstDigitFrom(severityText[1], 1) = 0 THEN Undefined
    ELSE parseSeverityScoreAt(severityText[1], firstDigitFrom(severityText[1], 1))

\* A banding that puts a score of exactly 3 in the medium band.
levelWithoutDescriptorStrict(score, lowerSeverity) ==
    IF score # Undefined
    THEN IF score[1].whole < 3 THEN "low"
         ELSE IF ScoreAtMost(score[1], 6) THEN "medium"
         ELSE "high"
    ELSE "medium"

\* The branch taken when no descriptor is found.
levelWithoutDescriptor(score, lowerSeverity) ==
    IF score # Undefined
    THEN IF ScoreAtMost(score[1], 3) THEN "low"
         ELSE IF ScoreAtMost(score[1], 6) THEN "medium"
         ELSE "high"
    ELSE IF includes(lowerSeverity, "worse") \/ includes(lowerSeverity, "can't cope")
    THEN "high"
    ELSE IF includes(lowerSeverity, "manageable") \/ includes(lowerSeverity, "mild")
    THEN "low"
    ELSE "medium"

\* The level of deriveSeverityLevel before the symptom is looked at.
levelOfSeverityText(severityText, lowerSeverity) ==
    IF \E n \in 1..Len(descriptorSeverityMap) :
          includes(lowerSeverity, descriptorSeverityMap[n][1])
    THEN descriptorSeverityMap[
            CHOOSE n \in 1..Len(descriptorSeverityMap) :
               /\ includes(lowerSeverity, descriptorSeverityMap[n][1])
               /\ \A m \in 1..n-1 : ~includes(lowerSeverity, descriptorSeverityMap[m][1])][2]
    ELSE levelWithoutDescriptor(parseSeverityScore(severityText), lowerSeverity)

\* A deriveSeverityLevel that does not look at the symptom.
levelForSymptomUnadjusted(level, symptom) == level

\* A deriveSeverityLevel that tests the low-priority keywords first.
levelForSymptomLowPriorityFirst(level, symptom) ==
    IF ~Truthy(symptom) THEN level
    ELSE IF /\ \E keyword \in lowPrioritySymptomKeywords :
                  includes(toLowerCase(symptom[1]), keyword)
            /\ level = "medium"
    THEN "low"
    ELSE IF \E keyword \in criticalSymptomKeywords : includes(toLowerCase(symptom[1]), keyword)
    THEN IF level = "low" THEN "medium" ELSE "high"
    ELSE level

\* The adjustment of the level by the symptom.
levelForSymptom(level, symptom) ==
    IF ~Truthy(symptom) THEN level
    ELSE IF \E keyword \in criticalSymptomKeywords : includes(toLowerCase(symptom[1]), keyword)
    THEN IF level = "low" THEN "medium" ELSE "high"
    ELSE IF /\ \E keyword \in lowPrioritySymptomKeywords :
                  includes(toLowerCase(symptom[1]), keyword)
            /\ level = "medium"
    THEN "low"
    ELSE level

deriveSeverityLevel(symptom, severityText) ==
    levelForSymptom(
        levelOfSeverityText(severityText,
                            IF Truthy(severityText) THEN toLowerCase(severityText[1]) ELSE ""),
        symptom)

(***************************************************************************)
(* The chat component.                                                     *)
(***************************************************************************)

EditableFields == {"symptom", "bodyLocation", "duration", "contextualInfo", "severity"}

NoEdit == "null"

Idle == [op |-> "none"]

\* The greeting the log starts with, and the messages handleSend appends.
Greeting == [role |-> "assistant", kind |-> "greeting"]

UserMessage == [role |-> "user", kind |-> "answer"]

\* What the 'symptoms' query of refreshRelatedInsights can come back with:
\* an error, no data, no rows, or the rows of the last 30 days.
RecentRows == <<[id |-> "s1", symptom_name |-> "headache"]>>

Lookups ==
    {[error |-> TRUE, data |-> Undefined], [error |-> FALSE, data |-> Undefined],
     [error |-> FALSE, data |-> Some(<<>>)], [error |-> FALSE, data |-> Some(RecentRows)]}

\* What the model behind generateRelatedSymptomInsight can answer.
RelatedNets ==
    {[kind |-> "rejected"],
     [kind |-> "content",
      text |-> "{\"summary\":\"Both may be migraine.\",\"recommendation\":\"See your GP.\",\"linkedSymptomIds\":[\"s1\"]}"]}

\* fetched of refreshRelatedInsights: data || [].
fetched(lookup) == IF lookup.data # Undefined THEN lookup.data[1] ELSE <<>>

\* A refreshRelatedInsights whose finally block is missing.
refreshRelatedInsightsWithoutFinally(lookup, insight) ==
    IF lookup.error \/ insight.threw
    THEN [relatedSymptoms |-> <<>>, relatedInsight |-> Undefined,
          relatedError |-> Some("Unable to load recent symptoms right now."),
          relatedLoading |-> TRUE]
    ELSE IF Len(fetched(lookup)) = 0
    THEN [relatedSymptoms |-> <<>>, relatedInsight |-> Undefined,
          relatedError |-> Undefined, relatedLoading |-> FALSE]
    ELSE [relatedSymptoms |-> fetched(lookup),
          relatedInsight |-> Some(insight.value),
          relatedError |-> Undefined, relatedLoading |-> FALSE]

\* refreshRelatedInsights after setRelatedLoading(true) and
\* setRelatedError(null): what it has written when it returns, given what the
\* query came back with and what generateRelatedSymptomInsight did.
refreshRelatedInsights(lookup, insight) ==
    IF lookup.error \/ insight.threw
    THEN [relatedSymptoms |-> <<>>, relatedInsight |-> Undefined,
          relatedError |-> Some("Unable to load recent symptoms right now."),
          relatedLoading |-> FALSE]
    ELSE IF Len(fetched(lookup)) = 0
    THEN [relatedSymptoms |-> <<>>, relatedInsight |-> Undefined,
          relatedError |-> Undefined, relatedLoading |-> FALSE]
    ELSE [relatedSymptoms |-> fetched(lookup),
          relatedInsight |-> Some(insight.value),
          relatedError |-> Undefined, relatedLoading |-> FALSE]

\* A handleSend that never takes its summary branch.
finalizesOnSendNever(state) == FALSE

\* The test of handleSend that sends the message to finalizeSummary.
finalizesOnSend(state) == state.conversationPhase = "summary"

\* A handleSend whose reply joins the log as a message of the user.
AssistantMessageAsUser(threw) ==
    [role |-> "user", kind |-> IF threw THEN "apology" ELSE "question"]

AssistantMessage(threw) ==
    [role |-> "assistant", kind |-> IF threw THEN "apology" ELSE "question"]

\* A regenerateOutputs that ignores its stateOverride.
targetStateOfComponent(stateOverride, componentState) == componentState

\* targetState of regenerateOutputs: stateOverride || conversationState.
targetState(stateOverride, componentState) ==
    IF stateOverride # Undefined THEN stateOverride[1] ELSE componentState

\* The row confirmAndSave inserts into 'symptoms'.
SymptomRow(state) ==
    [symptom_name |-> OrElse(state.symptom, ""),
     body_location |-> IF Truthy(state.bodyLocation) THEN state.bodyLocation ELSE Undefined,
     duration |-> OrElse(state.duration, ""),
     description |-> OrElse(state.contextualInfo, ""),
     severity |-> deriveSeverityLevel(state.symptom, state.severity)]

\* The row confirmAndSave inserts into 'conversations'.
ConversationRow(symptomId, log, summaryText, rec) ==
    [symptom_id |-> symptomId,
     messages |-> log,
     summary |-> summaryText,
     recommendation |-> IF rec # Undefined /\ rec[1].recommendation # ""
                        THEN Some(rec[1].recommendation) ELSE Undefined,
     urgency_level |-> IF rec # Undefined /\ rec[1].urgencyLevel # ""
                       THEN rec[1].urgencyLevel ELSE "low"]

\* How the two inserts of confirmAndSave can go: the first fails; the first
\* succeeds without returning its row; the second fails; both succeed.
SaveOutcomes == {"symptomError", "noRow", "conversationError", "saved"}

\* The catch block of confirmAndSave runs when an insert reported an error.
throwsAfter(outcome) == outcome \in {"symptomError", "conversationError"}

\* A confirmAndSave that calls onComplete whatever the inserts reported.
completesAfterAnyOutcome(outcome) == TRUE

\* onComplete is reached when neither insert reported an error.
completesAfter(outcome) == ~throwsAfter(outcome)

\* No confirmAndSave is running; alerted tells whether the last one ended in
\* the alert of its catch block.
NotSaving == [active |-> FALSE, alerted |-> FALSE]

VARIABLES
    variant,            \* which conversation service the build ships
    conversationState,  \* useState<ConversationState>
    loading,            \* useState(false)
    showSummary,        \* useState(false)
    summary,            \* useState('')
    improvementTips,    \* useState<string[]>([])
    recommendation,     \* useState(null): Undefined or <<record>>
    finalAdditionalInfo,\* useState(undefined)
    editingField,       \* useState(null)
    updatingSummary,    \* useState(false)
    pending,            \* the handler suspended at an await, if any
    edits,              \* how many edits of the summary screen were saved
    last,               \* what the last generateNextQuestion call returned
    lastOutputs,        \* what the last generateSummary / generateRecommendation returned
    env,                \* import.meta.env of the build
    gatewayCall,        \* the gateway calls of the last generator call made through the gateway
    evaluation,         \* the last evaluation of a function on its own: arguments and result
    messages,           \* useState<Message[]>: the log, by role and kind
    relatedSymptoms,    \* useState<Symptom[]>([])
    relatedInsight,     \* useState(null): Undefined or <<insight>>
    relatedLoading,     \* useState(false)
    relatedError,       \* useState(null): Undefined or <<text>>
    saving,             \* the confirmAndSave suspended at an await, if any
    saves,              \* how many times Confirm & Save was clicked
    store,              \* the rows of the tables 'symptoms' and 'conversations'
    completed           \* onComplete was called: App has left the chat view

relatedVars == <<relatedSymptoms, relatedInsight, relatedLoading, relatedError>>

saveVars == <<saving, saves, store, completed>>

vars == <<variant, conversationState, loading, showSummary, summary, improvementTips,
          recommendation, finalAdditionalInfo, editingField,
          updatingSummary, pending, edits, last, lastOutputs, env, gatewayCall,
          evaluation, messages, relatedVars, saveVars>>

NoCall == [called |-> FALSE]

TypeOfVariant(v, state) ==
    v = "sev" \/ (state.conversationPhase # "severity" /\ state.severity = Undefined)

\* The log, the related-symptom card and the save as the component mounts
\* them, over empty tables.
MountedFresh ==
    /\ messages = <<Greeting>>
    /\ relatedSymptoms = <<>>
    /\ relatedInsight = Undefined
    /\ relatedLoading = FALSE
    /\ relatedError = Undefined
    /\ saving = NotSaving
    /\ saves = 0
    /\ store = [symptoms |-> <<>>, conversations |-> <<>>]
    /\ completed = FALSE

InitWith(v, state) ==
    /\ variant = v
    /\ conversationState = state
    /\ loading = FALSE
    /\ showSummary = FALSE
    /\ summary = ""
    /\ improvementTips = <<>>
    /\ recommendation = Undefined
    /\ finalAdditionalInfo = Undefined
    /\ editingField = NoEdit
    /\ updatingSummary = FALSE
    /\ pending = Idle
    /\ edits = 0
    /\ last = NoCall
    /\ lastOutputs = NoCall
    /\ env = GeminiEnv
    /\ gatewayCall = NoCall
    /\ evaluation = NoCall
    /\ MountedFresh

\* A session as ChatInterface mounts it.
Init == \E v \in Variants : InitWith(v, InitialState)

\* handleSend up to its first await: the user's message joins the log.  In
\* phase 'summary' it runs finalizeSummary, which enters regenerateOutputs.
HandleSendStart(input) ==
    /\ ~completed
    /\ ~showSummary
    /\ pending = Idle
    /\ trim(input) # "" /\ ~loading
    /\ Len(messages) < MaxMessages
    /\ messages' = Append(messages, UserMessage)
    /\ loading' = TRUE
    /\ IF finalizesOnSend(conversationState)
       THEN /\ finalAdditionalInfo' = Some(trim(trim(input)))
            /\ updatingSummary' = TRUE
            /\ pending' = [op |-> "regenerate",
                           state |-> targetState(Some(conversationState), conversationState),
                           info |-> Some(trim(trim(input))), fromSend |-> TRUE]
       ELSE /\ pending' = [op |-> "nextQuestion", userMessage |-> trim(input)]
            /\ UNCHANGED <<finalAdditionalInfo, updatingSummary>>
    /\ UNCHANGED <<evaluation, env, gatewayCall, variant, conversationState, showSummary, summary, improvementTips,
                   recommendation, editingField, edits, last, lastOutputs,
                   relatedVars, saveVars>>

\* handleSend after generateNextQuestion settles: the assistant's message
\* joins the log and the new state is stored (or, had the call thrown, only
\* the apology is shown), then loading ends.
HandleSendNextQuestion ==
    /\ ~completed
    /\ pending.op = "nextQuestion"
    /\ \E call \in NextQuestionCalls(variant, conversationState, pending.userMessage) :
         /\ conversationState' = IF call.result.threw THEN conversationState
                                 ELSE call.result.newState
         /\ messages' = Append(messages, AssistantMessage(call.result.threw))
         /\ last' = [called |-> TRUE,
                     aiFailed |-> call.aiFailed,
                     threw |-> call.result.threw,
                     message |-> IF call.result.threw THEN "" ELSE call.result.message,
                     phase |-> IF call.result.threw THEN "" ELSE call.result.phase]
    /\ loading' = FALSE
    /\ pending' = Idle
    /\ UNCHANGED <<evaluation, env, gatewayCall, variant, showSummary, summary, improvementTips, recommendation,
                   finalAdditionalInfo, editingField, updatingSummary,
                   edits, lastOutputs, relatedVars, saveVars>>

\* regenerateOutputs after the awaits of its generators: their results are
\* stored and refreshRelatedInsights starts; had one of them thrown,
\* updatingSummary ends at once, finalizeSummary shows the summary screen
\* and handleSend ends loading.
RegenerateOutputsDone ==
    /\ ~completed
    /\ pending.op = "regenerate"
    /\ \E sc \in SummaryCalls(variant, pending.state, pending.info),
          rc \in RecommendationCalls(variant, pending.state, pending.info) :
         /\ IF sc.result.threw \/ rc.result.threw
            THEN /\ updatingSummary' = FALSE
                 /\ IF pending.fromSend
                    THEN showSummary' = TRUE /\ loading' = FALSE
                    ELSE UNCHANGED <<showSummary, loading>>
                 /\ pending' = Idle
                 /\ UNCHANGED <<summary, improvementTips, recommendation,
                                relatedLoading, relatedError>>
            ELSE /\ summary' = sc.result.text
                 /\ improvementTips' = sc.result.tips
                 /\ recommendation' = Some([recommendation |-> rc.result.recommendation,
                                            urgencyLevel |-> rc.result.urgencyLevel,
                                            advice |-> rc.result.advice])
                 /\ relatedLoading' = TRUE
                 /\ relatedError' = Undefined
                 /\ pending' = [op |-> "refresh", state |-> pending.state,
                                fromSend |-> pending.fromSend]
                 /\ UNCHANGED <<updatingSummary, showSummary, loading>>
         /\ lastOutputs' = [called |-> TRUE,
                            summaryFailed |-> sc.aiFailed,
                            recommendationFailed |-> rc.aiFailed,
                            recommendationFellBack |-> rc.fellBack,
                            summary |-> sc.result,
                            recommendation |-> rc.result]
    /\ last' = IF pending.fromSend THEN NoCall ELSE last
    /\ UNCHANGED <<evaluation, env, gatewayCall, variant, conversationState, finalAdditionalInfo, editingField, edits,
                   messages, relatedSymptoms, relatedInsight, saveVars>>

\* refreshRelatedInsights after its awaits, and the rest of
\* regenerateOutputs: the card's fields are written, relatedLoading and
\* updatingSummary end, finalizeSummary shows the summary screen and
\* handleSend ends loading.
RefreshRelatedInsightsDone ==
    /\ ~completed
    /\ pending.op = "refresh"
    /\ \E lookup \in Lookups, net \in RelatedNets :
         \E aiResponse \in {requestAiResponseSev(env, net)} :
            \E attempt \in {relatedInsightOf(aiResponse)} :
               \E written \in {refreshRelatedInsights(
                                  lookup,
                                  generateRelatedSymptomInsight(fetched(lookup),
                                                                aiResponse, attempt))} :
                  /\ relatedSymptoms' = written.relatedSymptoms
                  /\ relatedInsight' = written.relatedInsight
                  /\ relatedError' = written.relatedError
                  /\ relatedLoading' = written.relatedLoading
    /\ updatingSummary' = FALSE
    /\ IF pending.fromSend
       THEN showSummary' = TRUE /\ loading' = FALSE
       ELSE UNCHANGED <<showSummary, loading>>
    /\ pending' = Idle
    /\ UNCHANGED <<evaluation, env, gatewayCall, variant, conversationState, summary,
                   improvementTips, recommendation, finalAdditionalInfo, editingField,
                   edits, last, lastOutputs, messages, saveVars>>

\* renderEditableField shows the pencil of a field that is not being edited;
\* the Location card is not rendered for a state without location.  The
\* edit box opens holding the field's value.
startEditingField(field) ==
    /\ ~completed
    /\ showSummary
    /\ editingField # field
    /\ edits < EditBudget(variant)
    /\ ~(field = "bodyLocation" /\ ~conversationState.requiresLocation
           /\ ~Truthy(conversationState.bodyLocation))
    /\ editingField' = field
    /\ UNCHANGED <<evaluation, env, gatewayCall, variant, conversationState, loading, showSummary, summary,
                   improvementTips, recommendation, finalAdditionalInfo,
                   updatingSummary, pending, edits, last, lastOutputs,
                   messages, relatedVars, saveVars>>

cancelEditingField ==
    /\ ~completed
    /\ showSummary /\ editingField # NoEdit /\ ~updatingSummary
    /\ editingField' = NoEdit
    /\ UNCHANGED <<evaluation, env, gatewayCall, variant, conversationState, loading, showSummary, summary,
                   improvementTips, recommendation, finalAdditionalInfo,
                   updatingSummary, pending, edits, last, lastOutputs,
                   messages, relatedVars, saveVars>>

\* The state saveEditedField stores: the edited field replaced, nothing else.
EditedState(state, field, value) ==
    [state EXCEPT ![field] = IF trim(value) # "" THEN Some(trim(value)) ELSE Undefined]

\* What the edit box can hold when Save is clicked: the field's value as
\* startEditingField put it there, or what the user typed over it.
EditValues(state, field) == EditTexts \cup {OrElse(state[field], "")}

\* saveEditedField up to the first await of regenerateOutputs; editValue is
\* the content of the edit box when Save is clicked.
saveEditedField ==
    /\ ~completed
    /\ showSummary /\ editingField # NoEdit /\ ~updatingSummary
    /\ pending = Idle
    /\ edits < EditBudget(variant)
    /\ edits' = edits + 1
    /\ \E editValue \in EditValues(conversationState, editingField) :
         /\ conversationState' = EditedState(conversationState, editingField, editValue)
         /\ pending' = [op |-> "regenerate",
                        state |-> targetState(
                                     Some(EditedState(conversationState, editingField,
                                                      editValue)),
                                     conversationState),
                        info |-> finalAdditionalInfo, fromSend |-> FALSE]
    /\ editingField' = NoEdit
    /\ updatingSummary' = TRUE
    /\ UNCHANGED <<evaluation, env, gatewayCall, variant, loading, showSummary, summary, improvementTips,
                   recommendation, finalAdditionalInfo, last, lastOutputs,
                   messages, relatedVars, saveVars>>

\* confirmAndSave up to its first await: Confirm & Save is enabled on the
\* summary screen unless loading, updatingSummary or an open edit disables
\* it.  The handler works on the state, log and outputs of the render it
\* was clicked in.
ConfirmAndSaveStart ==
    /\ ~completed
    /\ showSummary
    /\ ~(loading \/ updatingSummary \/ editingField # NoEdit)
    /\ saves < SaveBudget(variant)
    /\ saves' = saves + 1
    /\ loading' = TRUE
    /\ saving' = [active |-> TRUE, alerted |-> FALSE, state |-> conversationState,
                  messages |-> messages, summary |-> summary,
                  recommendation |-> recommendation]
    /\ UNCHANGED <<evaluation, env, gatewayCall, variant, conversationState, showSummary,
                   summary, improvementTips, recommendation, finalAdditionalInfo,
                   editingField, updatingSummary, pending, edits, last, lastOutputs,
                   messages, relatedVars, store, completed>>

\* confirmAndSave after its awaits: the symptom row is inserted; when the
\* insert returned its row the conversation row follows; onComplete is
\* called unless an insert failed, and the alert is shown if one did;
\* loading ends.  The store numbers the symptom rows it takes.
ConfirmAndSaveDone ==
    /\ ~completed
    /\ saving.active
    /\ \E outcome \in SaveOutcomes :
         /\ store' =
               [symptoms |->
                   IF outcome = "symptomError" THEN store.symptoms
                   ELSE Append(store.symptoms,
                               [id |-> Len(store.symptoms) + 1,
                                row |-> SymptomRow(saving.state)]),
                conversations |->
                   IF outcome = "saved"
                   THEN Append(store.conversations,
                               ConversationRow(Len(store.symptoms) + 1, saving.messages,
                                               saving.summary, saving.recommendation))
                   ELSE store.conversations]
         /\ completed' = completesAfter(outcome)
         /\ saving' = [active |-> FALSE, alerted |-> throwsAfter(outcome)]
    /\ loading' = FALSE
    /\ UNCHANGED <<evaluation, env, gatewayCall, variant, conversationState, showSummary,
                   summary, improvementTips, recommendation, finalAdditionalInfo,
                   editingField, updatingSummary, pending, edits, last, lastOutputs,
                   messages, relatedVars, saves>>

Next ==
    \/ \E input \in Inputs(conversationState.conversationPhase) : HandleSendStart(input)
    \/ HandleSendNextQuestion
    \/ RegenerateOutputsDone
    \/ RefreshRelatedInsightsDone
    \/ \E field \in EditableFields : startEditingField(field)
    \/ cancelEditingField
    \/ saveEditedField
    \/ ConfirmAndSaveStart
    \/ ConfirmAndSaveDone

Spec == Init /\ [][Next]_vars

(***************************************************************************)
(* Calls of generateNextQuestion on any state of the type: handleSend on   *)
(* a component holding an arbitrary ConversationState of its service.      *)
(***************************************************************************)

AnyStates(v) ==
    {s \in [symptom : {Undefined} \cup {Some(t) : t \in Texts},
            bodyLocation : {Undefined, Some("two days")},
            duration : {Undefined, Some("two days")},
            contextualInfo : {Undefined, Some("two days")},
            severity : {Undefined, Some("two days")},
            conversationPhase : Phases,
            requiresLocation : BOOLEAN] : TypeOfVariant(v, s)}

InitAny == \E v \in Variants : \E s \in AnyStates(v) : InitWith(v, s)

NextAny ==
    \/ \E input \in Inputs(conversationState.conversationPhase) : HandleSendStart(input)
    \/ HandleSendNextQuestion

SpecAny == InitAny /\ [][NextAny]_vars

(***************************************************************************)
(* regenerateOutputs on any captured state: the component as handleSend    *)
(* leaves it at the await of finalizeSummary, holding a state the          *)
(* recommendation generators tell apart.                                   *)
(***************************************************************************)

\* Symptoms: none; emergency keywords, in mixed case and together with
\* keywords of lower tiers; keywords of the high and medium tiers; the
\* keywords of the self-care advice; and a symptom without any keyword.
ClassifierSymptoms ==
    {Undefined, Some("Chest PAIN"), Some("persistent chest pain and cough"),
     Some("Difficulty Breathing"), Some("severe bleeding"),
     Some("loss of consciousness"), Some("Seizure"),
     Some("Headache"), Some("high fever"), Some("persistent vomiting"),
     Some("severe pain"), Some("leg pain"), Some("recurring rash"),
     Some("mild cough"), Some("sore throat"), Some("muscle pain"),
     Some("fatigue"), Some("dizzy")}

ClassifierDurations == {Undefined, Some("3 days"), Some("2 Weeks"), Some("a month")}

ClassifierContexts == {Undefined, Some("it is Severe at night"), Some("Sudden onset"),
                       Some("the worst ever")}

\* What the user answered when asked for anything to add.
ClassifierInfos == {"no", "it came on suddenly"}

ClassifierStates(v) ==
    {[symptom |-> sy, bodyLocation |-> Undefined, duration |-> du,
      contextualInfo |-> co, severity |-> IF v = "sev" THEN Some("7") ELSE Undefined,
      conversationPhase |-> "summary", requiresLocation |-> FALSE] :
        sy \in ClassifierSymptoms, du \in ClassifierDurations, co \in ClassifierContexts}

InitClassify ==
    \E v \in Variants : \E state \in ClassifierStates(v) : \E info \in ClassifierInfos :
        /\ variant = v
        /\ conversationState = state
        /\ loading = TRUE
        /\ showSummary = FALSE
        /\ summary = ""
        /\ improvementTips = <<>>
        /\ recommendation = Undefined
        /\ finalAdditionalInfo = Some(info)
        /\ editingField = NoEdit
        /\ updatingSummary = TRUE
        /\ pending = [op |-> "regenerate", state |-> state,
                      info |-> Some(info), fromSend |-> TRUE]
        /\ edits = 0
        /\ last = NoCall
        /\ lastOutputs = NoCall
        /\ env = GeminiEnv
        /\ gatewayCall = NoCall
        /\ evaluation = NoCall
        /\ MountedFresh

NextClassify == RegenerateOutputsDone

SpecClassify == InitClassify /\ [][NextClassify]_vars

(***************************************************************************)
(* handleSend on a session that has come to phase 'context': the user is   *)
(* asked to tell more about the symptom.                                   *)
(***************************************************************************)

ContextPhaseStates ==
    {[symptom |-> Some(sy), bodyLocation |-> Undefined, duration |-> Some(du),
      contextualInfo |-> Undefined, severity |-> Undefined,
      conversationPhase |-> "context", requiresLocation |-> rl] :
        sy \in {"Headache", "a HEADACHE since lunch", "fatigue"},
        du \in {"3 days", "since this morning"},
        rl \in BOOLEAN}

\* What the user tells about the symptom.
ContextInputs == {"It was SUDDEN", " the worst ever, really ", "it comes and goes", "   "}

InitContext == \E v \in Variants : \E state \in ContextPhaseStates : InitWith(v, state)

NextContext ==
    \/ \E input \in ContextInputs : HandleSendStart(input)
    \/ HandleSendNextQuestion

SpecContext == InitContext /\ [][NextContext]_vars

(***************************************************************************)
(* The generators of the AI variant through their gateway, in any build.   *)
(***************************************************************************)

GatewayMessages == {"Back PAIN", "fatigue"}

\* The states the generators are called in: the session's first message,
\* and a session that has reached its summary.
GatewayStates ==
    {InitialState,
     [InitialState EXCEPT !.symptom = Some("Chest PAIN"), !.duration = Some("2 days"),
                          !.contextualInfo = Some("none"),
                          !.conversationPhase = "summary"]}

InitGateway ==
    /\ \E e \in Envs : env = e
    /\ variant = "ai"
    /\ \E state \in GatewayStates : conversationState = state
    /\ loading = FALSE
    /\ showSummary = FALSE
    /\ summary = ""
    /\ improvementTips = <<>>
    /\ recommendation = Undefined
    /\ finalAdditionalInfo = Undefined
    /\ editingField = NoEdit
    /\ updatingSummary = FALSE
    /\ pending = Idle
    /\ edits = 0
    /\ last = NoCall
    /\ lastOutputs = NoCall
    /\ gatewayCall = NoCall
    /\ evaluation = NoCall
    /\ MountedFresh

\* What the generator makes of its gateway calls: the reply of the last.
GatewayOutcome(calls) ==
    IF calls[Len(calls)].threw THEN Throw ELSE calls[Len(calls)].reply

\* One generateNextQuestion call: the gateway calls it makes, whether its
\* try block failed, and what it returns.
GenerateNextQuestionViaGateway ==
    /\ conversationState.conversationPhase # "summary"
    /\ \E userMessage \in GatewayMessages, nets \in Nets \X Nets :
         \E calls \in {nextQuestionGatewayCalls(env, nets)} :
            gatewayCall' = [called |-> TRUE,
                            operation |-> "generateNextQuestion",
                            input |-> Some(userMessage),
                            calls |-> calls,
                            aiFailed |-> AiFailed("ai", conversationState,
                                                  GatewayOutcome(calls)),
                            result |-> generateNextQuestionAi(conversationState, userMessage,
                                                              GatewayOutcome(calls))]
    /\ UNCHANGED <<evaluation, env, variant, conversationState, loading, showSummary, summary,
                   improvementTips, recommendation, finalAdditionalInfo, editingField,
                   updatingSummary, pending, edits, last, lastOutputs,
                   messages, relatedVars, saveVars>>

\* One generateSummary call.
GenerateSummaryViaGateway ==
    /\ conversationState.conversationPhase = "summary"
    /\ \E additionalInfo \in {Undefined, Some("it came on suddenly")},
          nets \in SummaryNets \X SummaryNets :
         \E calls \in {summaryGatewayCalls(env, nets)} :
            gatewayCall' = [called |-> TRUE,
                            operation |-> "generateSummary",
                            input |-> additionalInfo,
                            calls |-> calls,
                            aiFailed |-> SummaryFailed("ai", GatewayOutcome(calls)),
                            result |-> generateSummaryAi(conversationState, additionalInfo,
                                                         GatewayOutcome(calls))]
    /\ UNCHANGED <<evaluation, env, variant, conversationState, loading, showSummary, summary,
                   improvementTips, recommendation, finalAdditionalInfo, editingField,
                   updatingSummary, pending, edits, last, lastOutputs,
                   messages, relatedVars, saveVars>>

\* One generateRecommendation call.
GenerateRecommendationViaGateway ==
    /\ conversationState.conversationPhase = "summary"
    /\ \E additionalInfo \in {Undefined, Some("it came on suddenly")},
          nets \in RecommendationNets \X RecommendationNets :
         \E calls \in {recommendationGatewayCalls(env, nets)} :
            gatewayCall' = [called |-> TRUE,
                            operation |-> "generateRecommendation",
                            input |-> additionalInfo,
                            calls |-> calls,
                            aiFailed |-> RecommendationFellBack("ai", GatewayOutcome(calls)),
                            result |-> generateRecommendationAi(conversationState,
                                                                additionalInfo,
                                                                GatewayOutcome(calls))]
    /\ UNCHANGED <<evaluation, env, variant, conversationState, loading, showSummary, summary,
                   improvementTips, recommendation, finalAdditionalInfo, editingField,
                   updatingSummary, pending, edits, last, lastOutputs,
                   messages, relatedVars, saveVars>>

NextGateway ==
    \/ GenerateNextQuestionViaGateway
    \/ GenerateSummaryViaGateway
    \/ GenerateRecommendationViaGateway

SpecGateway == InitGateway /\ [][NextGateway]_vars

(***************************************************************************)
(* extractJson on its own, on replies a model can send: a JSON text or     *)
(* something else, bare or wrapped in prose or a code fence.               *)
(***************************************************************************)

ExtractPrefixes ==
    {"", "  ", "Here is the JSON: ", "~~~json\n", "Use {curly} braces. ", "} "}

ExtractBodies ==
    {"{\"message\":\"How long?\"}",
     "{\"summary\":\"ok\",\"tips\":[\"rest\",\"drink\"]}",
     "{ \"newState\": {\"duration\": \"2 days\"}, \"n\": 3 }",
     "{bad}",
     "{\"message\":\"How long?\"",
     "no json here",
     "42",
     ""}

ExtractSuffixes == {"", "\n~~~", " Hope this helps.", " (see {above})", " \n"}

\* The other variables of the module, at rest.
ComponentAtRest ==
    /\ variant = "ai"
    /\ conversationState = InitialState
    /\ loading = FALSE
    /\ showSummary = FALSE
    /\ summary = ""
    /\ improvementTips = <<>>
    /\ recommendation = Undefined
    /\ finalAdditionalInfo = Undefined
    /\ editingField = NoEdit
    /\ updatingSummary = FALSE
    /\ pending = Idle
    /\ edits = 0
    /\ last = NoCall
    /\ lastOutputs = NoCall
    /\ env = GeminiEnv
    /\ gatewayCall = NoCall
    /\ MountedFresh

InitExtract ==
    /\ ComponentAtRest
    /\ \E prefix \in ExtractPrefixes, body \in ExtractBodies, suffix \in ExtractSuffixes :
          evaluation = [called |-> FALSE, prefix |-> prefix, body |-> body,
                        suffix |-> suffix]

\* extractJson(rawResponse) for the reply drawn.
ExtractJson ==
    /\ ~evaluation.called
    /\ evaluation' =
          [called |-> TRUE, prefix |-> evaluation.prefix, body |-> evaluation.body,
           suffix |-> evaluation.suffix,
           rawResponse |-> evaluation.prefix \o evaluation.body \o evaluation.suffix,
           result |-> extractJson(evaluation.prefix \o evaluation.body \o evaluation.suffix)]
    /\ UNCHANGED <<env, gatewayCall, variant, conversationState, loading, showSummary,
                   summary, improvementTips, recommendation, finalAdditionalInfo,
                   editingField, updatingSummary, pending, edits, last, lastOutputs,
                   messages, relatedVars, saveVars>>

NextExtract == ExtractJson

SpecExtract == InitExtract /\ [][NextExtract]_vars

(***************************************************************************)
(* generateRelatedSymptomInsight on its own.                                *)
(***************************************************************************)

PriorSymptomLists ==
    {<<>>,
     <<[id |-> "s1", symptom_name |-> "headache"]>>,
     <<[id |-> "s2", symptom_name |-> "fatigue"], [id |-> "s1", symptom_name |-> "headache"]>>}

InsightTexts ==
    {"",
     "{\"summary\":\"Both may be migraine.\",\"recommendation\":\"See your GP.\",\"linkedSymptomIds\":[\"s1\"]}",
     "Here is the JSON: {\"summary\":\"Both may be migraine.\",\"recommendation\":\"See your GP.\",\"linkedSymptomIds\":[]}",
     "{\"summary\":\"Both may be migraine.\",\"linkedSymptomIds\":[\"s1\"]}",
     "{\"summary\":\"\",\"recommendation\":\"See your GP.\",\"linkedSymptomIds\":[\"s1\"]}",
     "{\"summary\":\"Both may be migraine.\",\"recommendation\":\"See your GP.\",\"linkedSymptomIds\":\"s1\"}",
     "{\"summary\":\"Both may be migraine.\",\"recommendation\":null,\"linkedSymptomIds\":[\"s1\"]}",
     "{\"summary\":\"Both may be migraine.\",\"recommendation\":\"See your GP.\"}",
     "null",
     "42",
     "[\"s1\"]",
     "I could not find a link.",
     "{bad}",
     "{}"}

InsightNets == {[kind |-> "rejected"]} \cup {[kind |-> "content", text |-> t] : t \in InsightTexts}

InitInsight ==
    /\ ComponentAtRest
    /\ \E priorSymptoms \in PriorSymptomLists, e \in {GeminiEnv, NoKeyEnv}, net \in InsightNets :
          evaluation = [called |-> FALSE, priorSymptoms |-> priorSymptoms, env |-> e,
                        net |-> net]

GenerateRelatedSymptomInsight ==
    /\ ~evaluation.called
    /\ \E aiResponse \in {requestAiResponseSev(evaluation.env, evaluation.net)} :
          \E attempt \in {relatedInsightOf(aiResponse)} :
             evaluation' =
                [called |-> TRUE, priorSymptoms |-> evaluation.priorSymptoms,
                 env |-> evaluation.env, net |-> evaluation.net,
                 result |-> generateRelatedSymptomInsight(evaluation.priorSymptoms,
                                                          aiResponse, attempt)]
    /\ UNCHANGED <<env, gatewayCall, variant, conversationState, loading, showSummary,
                   summary, improvementTips, recommendation, finalAdditionalInfo,
                   editingField, updatingSummary, pending, edits, last, lastOutputs,
                   messages, relatedVars, saveVars>>

NextInsight == GenerateRelatedSymptomInsight

SpecInsight == InitInsight /\ [][NextInsight]_vars

(***************************************************************************)
(* deriveSeverityLevel (ChatInterface.tsx, lines 19-80), on its own.       *)
(***************************************************************************)

SeveritySymptoms ==
    {Undefined, Some(""), Some("knee pain"), Some("Chest tightness"),
     Some("shortness of breath"), Some("Headache"), Some("headache with blurred vision"),
     Some("migraine")}

\* Numbers a severity text can hold, each with its value in tenths.
SeverityNumbers ==
    {[text |-> "0", tenths |-> 0], [text |-> "2", tenths |-> 20],
     [text |-> "3", tenths |-> 30], [text |-> "3.0", tenths |-> 30],
     [text |-> "3.5", tenths |-> 35], [text |-> "6", tenths |-> 60],
     [text |-> "6.5", tenths |-> 65], [text |-> "8", tenths |-> 80],
     [text |-> "10", tenths |-> 100], [text |-> "15", tenths |-> 150]}

SeverityWordings ==
    {"", "mild", "Light", "moderate", "moderate-to-severe", "SEVERE", "intense",
     "mild to severe", "getting worse", "manageable", "throbbing"}

\* A severity text: a wording, a number, both, or none (absent).
SeverityTexts ==
    {[absent |-> TRUE, wording |-> "", number |-> <<>>]}
    \cup {[absent |-> FALSE, wording |-> w, number |-> n] :
             w \in SeverityWordings,
             n \in {<<>>} \cup {<<k>> : k \in SeverityNumbers}}

\* The text typed: the number first ('8/10'), then the wording.
SeverityTextOf(t) ==
    IF t.absent THEN Undefined
    ELSE IF t.number = <<>> THEN Some(t.wording)
    ELSE IF t.wording = "" THEN Some(t.number[1].text \o "/10")
    ELSE Some(t.number[1].text \o "/10, " \o t.wording)

InitSeverity ==
    /\ ComponentAtRest
    /\ \E symptom \in SeveritySymptoms, t \in SeverityTexts :
          evaluation = [called |-> FALSE, symptom |-> symptom, severity |-> t]

DeriveSeverityLevel ==
    /\ ~evaluation.called
    /\ evaluation' =
          [called |-> TRUE, symptom |-> evaluation.symptom, severity |-> evaluation.severity,
           severityText |-> SeverityTextOf(evaluation.severity),
           banded |-> levelOfSeverityText(
                         SeverityTextOf(evaluation.severity),
                         IF Truthy(SeverityTextOf(evaluation.severity))
                         THEN toLowerCase(SeverityTextOf(evaluation.severity)[1]) ELSE ""),
           result |-> deriveSeverityLevel(evaluation.symptom,
                                          SeverityTextOf(evaluation.severity))]
    /\ UNCHANGED <<env, gatewayCall, variant, conversationState, loading, showSummary,
                   summary, improvementTips, recommendation, finalAdditionalInfo,
                   editingField, updatingSummary, pending, edits, last, lastOutputs,
                   messages, relatedVars, saveVars>>

NextSeverity == DeriveSeverityLevel

SpecSeverity == InitSeverity /\ [][NextSeverity]_vars

(***************************************************************************)
(* Steps of a behaviour.                                                   *)
(***************************************************************************)

\* The step on which a generateNextQuestion call settles.
Called == pending.op = "nextQuestion" /\ pending'.op = "none"

\* The step on which generateSummary and generateRecommendation settle.
Regenerated == pending.op = "regenerate" /\ pending'.op # "regenerate"

\* The step on which saveEditedField stores the edited state.
Saved == pending.op = "none" /\ pending'.op = "regenerate" /\ ~pending'.fromSend

\* The state in which the Urgency Classifier has just produced the stored
\* recommendation: generateRecommendation of conversationService.ts, or
\* fallbackRecommendation from the AI variant's catch branch.
ClassifierRan ==
    /\ lastOutputs.called
    /\ (variant = "det" \/ (variant = "ai" /\ lastOutputs.recommendationFellBack))

\* The fields of a ConversationState that hold what the user said.
CapturedFields == {"symptom", "bodyLocation", "duration", "contextualInfo", "severity"}

\* The values of RecommendationAIResponse.urgencyLevel.
UrgencyLevels == {"low", "medium", "high", "urgent"}

(***************************************************************************)
(* Properties.                                                             *)
(***************************************************************************)

\* C1: the conversation phase never moves backwards in the order
\* initial < symptom < location < duration < context < severity < summary,
\* whichever path of generateNextQuestion produced the new state.
PhaseNeverMovesBackwards ==
    [][PhaseRank(conversationState'.conversationPhase)
         >= PhaseRank(conversationState.conversationPhase)]_vars

\* C2: a generateNextQuestion call of the deterministic engine, of the
\* severity variant, or of the AI variant's fallback moves the phase
\* exactly as the transition table says.
PhaseFollowsTransitionTable ==
    [][(Called /\ (variant # "ai" \/ last'.aiFailed))
         => LET phase == conversationState.conversationPhase
                tableNext ==
                    CASE phase = "initial"  -> "symptom"
                      [] phase = "symptom"  ->
                            IF conversationState'.requiresLocation
                            THEN "location" ELSE "duration"
                      [] phase = "location" -> "duration"
                      [] phase = "duration" -> "context"
                      [] phase = "context"  ->
                            IF variant = "sev" THEN "severity" ELSE "summary"
                      [] phase = "severity" -> "summary"
                      [] phase = "summary"  -> "summary"
            IN  /\ conversationState'.conversationPhase = tableNext
                /\ last'.phase = tableNext]_vars

\* C2 (the case happens): a call of the severity variant made in phase
\* 'context' has returned phase 'severity'.
SevContextCallReturned ==
    /\ variant = "sev" /\ last.called /\ last.phase = "severity"
    /\ conversationState.conversationPhase = "severity"
    /\ Truthy(conversationState.contextualInfo)

\* C3: before any edit, a state in phase 'summary' has a non-empty symptom,
\* duration and contextualInfo, a non-empty bodyLocation when
\* requiresLocation is true, and a non-empty severity in the severity
\* variant.
SummaryPhaseHasRequiredFields ==
    (edits = 0 /\ conversationState.conversationPhase = "summary")
      => /\ Truthy(conversationState.symptom)
         /\ Truthy(conversationState.duration)
         /\ Truthy(conversationState.contextualInfo)
         /\ (conversationState.requiresLocation => Truthy(conversationState.bodyLocation))
         /\ (variant = "sev" => Truthy(conversationState.severity))

\* C4: in a state reached through generateNextQuestion calls, bodyLocation
\* is set only if requiresLocation is true.
BodyLocationOnlyIfRequired ==
    (edits = 0 /\ conversationState.bodyLocation # Undefined)
      => conversationState.requiresLocation

\* C5: a generateNextQuestion call made in phase P stores the user message
\* in the field P owns and leaves every other captured field unchanged; a
\* call made in phase initial or summary changes no captured field.
CallStoresMessageInPhaseField ==
    [][Called
         => LET phase == conversationState.conversationPhase
                owned ==
                    CASE phase = "symptom"  -> "symptom"
                      [] phase = "location" -> "bodyLocation"
                      [] phase = "duration" -> "duration"
                      [] phase = "context"  -> "contextualInfo"
                      [] phase = "severity" -> "severity"
                      [] OTHER -> "none"
            IN  \A f \in CapturedFields :
                   conversationState'[f]
                     = IF f = owned THEN Some(pending.userMessage)
                       ELSE conversationState[f]]_vars

\* C6: a generateNextQuestion call made in a phase other than 'symptom',
\* and saveEditedField, leave requiresLocation as it was.
RequiresLocationAssignedOnce ==
    [][((Called /\ conversationState.conversationPhase # "symptom") \/ Saved)
         => conversationState'.requiresLocation = conversationState.requiresLocation]_vars

\* C7: the generateNextQuestion call that stores a symptom containing a
\* location keyword returns requiresLocation = true and phase 'location',
\* whether the model call of that step succeeds or fails.
KeywordSymptomRequiresLocation ==
    [][(Called /\ conversationState.conversationPhase = "symptom"
          /\ needsBodyLocation(pending.userMessage))
         => /\ conversationState'.requiresLocation
            /\ conversationState'.conversationPhase = "location"
            /\ last'.phase = "location"]_vars

\* C8: while the symptom of the session contains no location keyword, the
\* phase is never 'location'.
NoLocationPhaseWithoutKeyword ==
    (Truthy(conversationState.symptom) /\ ~needsBodyLocation(conversationState.symptom[1]))
      => conversationState.conversationPhase # "location"

\* C9: when the gateway throws, its reply cannot be parsed, or the parsed
\* reply lacks a required field, generateNextQuestion returns a message, a
\* state and a phase, with a strictly later phase unless the phase was
\* already 'summary'; generateSummary returns a summary; and
\* generateRecommendation returns a record with a recommendation, an
\* urgency level and an advice.
FallbackResultsWellFormed ==
    [][/\ (Called /\ last'.aiFailed)
            => /\ ~last'.threw
               /\ last'.message # ""
               /\ last'.phase \in Phases
               /\ conversationState'.conversationPhase \in Phases
               /\ (conversationState.conversationPhase # "summary"
                     => PhaseRank(conversationState'.conversationPhase)
                          > PhaseRank(conversationState.conversationPhase))
       /\ (Regenerated /\ lastOutputs'.summaryFailed)
            => /\ ~lastOutputs'.summary.threw
               /\ lastOutputs'.summary.text # ""
       /\ (Regenerated /\ lastOutputs'.recommendationFailed)
            => /\ ~lastOutputs'.recommendation.threw
               /\ lastOutputs'.recommendation.recommendation # ""
               /\ lastOutputs'.recommendation.urgencyLevel \in UrgencyLevels
               /\ Truthy(lastOutputs'.recommendation.advice)]_vars

\* C10: when the try block of the AI variant's generateNextQuestion fails,
\* the call returns what the deterministic Phase Engine returns for the
\* same state and message: the same new state (field stored,
\* requiresLocation, phase), the same phase and the same question text.
FallbackEqualsPhaseEngine ==
    [][(Called /\ variant = "ai" /\ last'.aiFailed)
         => \E d \in {generateNextQuestionDet(conversationState, pending.userMessage)} :
               /\ conversationState' = d.newState
               /\ last'.message = d.message
               /\ last'.phase = d.phase]_vars

\* C10 (the case happens): a failed call of the AI variant made in phase
\* 'symptom' with a keyword symptom has asked for the location.
AiFallbackAskedLocation ==
    /\ variant = "ai" /\ last.called /\ last.aiFailed
    /\ last.message = "Where exactly are you experiencing this?"
    /\ conversationState.symptom = Some("Back PAIN")
    /\ conversationState.conversationPhase = "location"

\* C11: every generateNextQuestion call that handleSend makes before the
\* phase is 'summary' leaves conversationState in a strictly later phase,
\* whatever the model replied.
EveryMessageAdvancesPhase ==
    [][(Called /\ conversationState.conversationPhase # "summary")
         => PhaseRank(conversationState'.conversationPhase)
              > PhaseRank(conversationState.conversationPhase)]_vars

\* C12: when generateRecommendation takes its catch branch, the record it
\* returns is the deterministic Urgency Classifier's for the state's
\* symptom, duration and context.
FallbackRecommendationIsClassifier ==
    (lastOutputs.called /\ lastOutputs.recommendationFellBack)
      => lastOutputs.recommendation = generateRecommendationDet(conversationState)

\* C13: for a symptom that contains 'chest pain', 'difficulty breathing',
\* 'severe bleeding', 'loss of consciousness' or 'seizure' in any letter
\* case, the Urgency Classifier returns 'urgent', whatever the duration and
\* the context.
EmergencySymptomIsUrgent ==
    (/\ ClassifierRan
     /\ \E k \in {"chest pain", "difficulty breathing", "severe bleeding",
                  "loss of consciousness", "seizure"} :
           includes(toLowerCase(OrElse(conversationState.symptom, "")), k))
      => lastOutputs.recommendation.urgencyLevel = "urgent"

\* C13 (the case happens): the classifier has answered for a chest pain
\* that is also persistent, comes with a cough and has lasted two weeks.
ChestPainWithLowerTiersClassified ==
    /\ ClassifierRan
    /\ conversationState.symptom = Some("persistent chest pain and cough")
    /\ conversationState.duration = Some("2 Weeks")
    /\ conversationState.contextualInfo = Some("it is Severe at night")
    /\ lastOutputs.recommendation.recommendation = "Call 999 immediately"

\* C14: the Urgency Classifier's urgencyLevel is the first matching tier of
\* the ordered list urgent, high, medium, low, over the lower-cased symptom,
\* duration and context, a missing one counting as empty; the classifier
\* returns for every input.  The context is contextualInfo in
\* conversationService.ts, and contextualInfo followed by the additional
\* information in fallbackRecommendation.
ClassifierReturnsFirstMatchingTier ==
    ClassifierRan
      => LET symptom  == toLowerCase(OrElse(conversationState.symptom, ""))
             duration == toLowerCase(OrElse(conversationState.duration, ""))
             context  ==
                 IF variant = "det"
                 THEN toLowerCase(OrElse(conversationState.contextualInfo, ""))
                 ELSE toLowerCase(OrElse(conversationState.contextualInfo, "") \o " "
                                    \o OrElse(finalAdditionalInfo, ""))
             urgent ==
                 \/ \E k \in {"chest pain", "difficulty breathing", "severe bleeding",
                              "loss of consciousness", "seizure"} : includes(symptom, k)
                 \/ /\ includes(symptom, "headache")
                    /\ \E k \in {"sudden", "worst ever"} : includes(context, k)
             high ==
                 \/ \E k \in {"high fever", "persistent vomiting", "severe pain"} :
                       includes(symptom, k)
                 \/ (includes(symptom, "pain") /\ includes(context, "severe"))
                 \/ \E k \in {"week", "month"} : includes(duration, k)
             medium ==
                 \/ \E k \in {"persistent", "recurring"} : includes(symptom, k)
                 \/ (includes(symptom, "cough") /\ includes(duration, "week"))
         IN  /\ ~lastOutputs.recommendation.threw
             /\ lastOutputs.recommendation.urgencyLevel
                  = IF urgent THEN "urgent"
                    ELSE IF high THEN "high"
                    ELSE IF medium THEN "medium"
                    ELSE "low"

\* C14 (the case happens): the classifier has passed the urgent and the
\* high tier and answered 'medium' for a recurring rash of three days.
RecurringRashClassifiedMedium ==
    /\ ClassifierRan
    /\ conversationState.symptom = Some("recurring rash")
    /\ conversationState.duration = Some("3 days")
    /\ conversationState.contextualInfo = Undefined
    /\ lastOutputs.recommendation.urgencyLevel = "medium"

\* C15: a call made in phase 'context' on a state whose symptom contains
\* 'headache', with a message that contains 'sudden' or 'worst ever', stores
\* the message as contextualInfo and moves the phase to 'summary' (to
\* 'severity' in the severity variant), and the Urgency Classifier returns
\* 'urgent' for the resulting state.
SuddenHeadacheBecomesUrgent ==
    [][(/\ Called /\ (variant # "ai" \/ last'.aiFailed)
        /\ conversationState.conversationPhase = "context"
        /\ includes(toLowerCase(OrElse(conversationState.symptom, "")), "headache")
        /\ \E k \in {"sudden", "worst ever"} :
              includes(toLowerCase(pending.userMessage), k))
         => /\ conversationState'.contextualInfo = Some(pending.userMessage)
            /\ conversationState'.conversationPhase
                 = IF variant = "sev" THEN "severity" ELSE "summary"
            /\ generateRecommendationDet(conversationState').urgencyLevel = "urgent"
            /\ fallbackRecommendation(conversationState', Undefined).urgencyLevel
                 = "urgent"]_vars

\* C15 (the case happens): the severity variant has stored 'It was SUDDEN'
\* as the context of a headache and moved on to phase 'severity'.
SevStoredSuddenHeadacheContext ==
    /\ variant = "sev" /\ last.called
    /\ conversationState.symptom = Some("a HEADACHE since lunch")
    /\ conversationState.contextualInfo = Some("It was SUDDEN")
    /\ conversationState.conversationPhase = "severity"

\* C15 as stated: the same call moves the phase to 'summary' in every
\* service the claim names.
SuddenHeadacheMovesToSummary ==
    [][(/\ Called /\ (variant # "ai" \/ last'.aiFailed)
        /\ conversationState.conversationPhase = "context"
        /\ includes(toLowerCase(OrElse(conversationState.symptom, "")), "headache")
        /\ \E k \in {"sudden", "worst ever"} :
              includes(toLowerCase(pending.userMessage), k))
         => /\ conversationState'.contextualInfo = Some(pending.userMessage)
            /\ conversationState'.conversationPhase = "summary"
            /\ generateRecommendationDet(conversationState').urgencyLevel
                 = "urgent"]_vars

UrgencyLevelIsOneOfFour ==
    /\ lastOutputs.called => lastOutputs.recommendation.urgencyLevel \in UrgencyLevels
    /\ (IF recommendation = Undefined \/ recommendation[1].urgencyLevel = ""
        THEN "low" ELSE recommendation[1].urgencyLevel) \in UrgencyLevels

\* C18: every result of generateSummary (severity variant) carries at most
\* three tips, and so does the list regenerateOutputs stores.
SummaryHasAtMostThreeTips ==
    (variant = "sev" /\ lastOutputs.called)
      => /\ Len(lastOutputs.summary.tips) <= 3
         /\ Len(improvementTips) <= 3

\* C19: requestAiResponse fails with a configuration error, issuing no network
\* request, exactly when the selected provider has no API key, and otherwise
\* sends its one request to the selected provider, which has a key.  The
\* selected provider is the one VITE_AI_PROVIDER names when it is set
\* ('openai' for OpenAI, any other word for Gemini), otherwise the first of
\* OpenAI and Gemini that has a key.  With VITE_AI_PROVIDER unset the failure
\* happens exactly when neither provider has a key.
ConfigurationErrorIffSelectedProviderLacksKey ==
    gatewayCall.called =>
        LET call == gatewayCall.calls[1]
            hasKey == [p \in {"openai", "gemini"} |->
                          IF p = "openai" THEN Truthy(env.VITE_OPENAI_API_KEY)
                                          ELSE Truthy(env.VITE_GEMINI_API_KEY)]
            selected == IF Truthy(env.VITE_AI_PROVIDER)
                        THEN IF env.VITE_AI_PROVIDER = Some("openai") THEN "openai" ELSE "gemini"
                        ELSE IF hasKey["openai"] THEN "openai" ELSE "gemini"
            configurationError == call.threw /\ call.fetched = <<>>
        IN  /\ configurationError <=> ~hasKey[selected]
            /\ ~configurationError => call.fetched = <<selected>>
            /\ ~Truthy(env.VITE_AI_PROVIDER) =>
                  (configurationError <=> (~hasKey["openai"] /\ ~hasKey["gemini"]))

\* C19 as stated: the configuration error happens exactly when no provider has
\* a key, and with a key present the request goes to a provider that has one.
ConfigurationErrorIffNoKeyAtAll ==
    gatewayCall.called =>
        LET call == gatewayCall.calls[1]
            hasKey == [p \in {"openai", "gemini"} |->
                          IF p = "openai" THEN Truthy(env.VITE_OPENAI_API_KEY)
                                          ELSE Truthy(env.VITE_GEMINI_API_KEY)]
            configurationError == call.threw /\ call.fetched = <<>>
        IN  /\ configurationError <=> (~hasKey["openai"] /\ ~hasKey["gemini"])
            /\ (hasKey["openai"] \/ hasKey["gemini"]) =>
                  /\ Len(call.fetched) = 1
                  /\ hasKey[call.fetched[1]]

\* A build that names OpenAI and holds a Gemini key only: the call failed on
\* the missing OpenAI key and nothing was fetched.
OpenAiNamedWithGeminiKeyOnlyFailed ==
    /\ gatewayCall.called
    /\ env.VITE_AI_PROVIDER = Some("openai")
    /\ ~Truthy(env.VITE_OPENAI_API_KEY)
    /\ Truthy(env.VITE_GEMINI_API_KEY)
    /\ gatewayCall.calls[1].threw
    /\ gatewayCall.calls[1].error = "Missing OpenAI API key"
    /\ gatewayCall.calls[1].fetched = <<>>

\* C20: a requestAiResponse call issues at most one remote request, and a
\* generator (generateNextQuestion, generateSummary, generateRecommendation)
\* makes one requestAiResponse call only; when that call fails the generator
\* returns what its fallback returns.
OneRequestThenFallback ==
    gatewayCall.called =>
        /\ Len(gatewayCall.calls) = 1
        /\ \A i \in 1..Len(gatewayCall.calls) : Len(gatewayCall.calls[i].fetched) <= 1
        /\ gatewayCall.calls[1].threw =>
              /\ gatewayCall.aiFailed
              /\ gatewayCall.result =
                    CASE gatewayCall.operation = "generateNextQuestion" ->
                            fallbackNextQuestion(conversationState, gatewayCall.input[1])
                      [] gatewayCall.operation = "generateSummary" ->
                            Summary(fallbackSummary(conversationState, gatewayCall.input), <<>>)
                      [] gatewayCall.operation = "generateRecommendation" ->
                            fallbackRecommendation(conversationState, gatewayCall.input)

\* The provider answered the one request of generateNextQuestion with a
\* failing status and the generator returned the fallback question.
RemoteRequestFailedOnce ==
    /\ gatewayCall.called
    /\ gatewayCall.operation = "generateNextQuestion"
    /\ gatewayCall.calls[1].threw
    /\ gatewayCall.calls[1].fetched = <<"openai">>
    /\ gatewayCall.calls[1].error = "OpenAI request failed: "
    /\ gatewayCall.result = fallbackNextQuestion(conversationState, gatewayCall.input[1])

\* C21: when extractJson throws, the error is the one the strict parse of the
\* trimmed text raised, whether or not a brace-delimited substring exists.
ExtractJsonThrowsFirstError ==
    (evaluation.called /\ evaluation.result.threw) =>
        /\ evaluation.result.attempt = 1
        /\ evaluation.result.error = JSONparse(trim(evaluation.rawResponse)).error

\* C22: a JSON object text wrapped in prose or a code fence parses to the
\* object the text alone parses to.
WrappedJsonParsesToSameObject ==
    (/\ evaluation.called
     /\ ~JSONparse(evaluation.body).threw
     /\ JSONparse(evaluation.body).value.t = "object") =>
        evaluation.result = extractJson(evaluation.body)

\* C23: generateRelatedSymptomInsight returns null and sends nothing through
\* the gateway when the list of prior symptoms is empty; with a list that is
\* not empty it never throws, and when the gateway fails, the reply does not
\* parse or a field is missing it returns the 'no confirmed linkage'
\* placeholder, whose linkedSymptomIds is empty.
RelatedInsightNullOrPlaceholderOnFailure ==
    evaluation.called =>
        LET result == evaluation.result
            aiResponse == requestAiResponseSev(evaluation.env, evaluation.net)
            parsed == extractJson(aiResponse.text)
            Missing(name) ==
                \/ parsed.value.t # "object"
                \/ name \notin DOMAIN parsed.value.v
            failed ==
                \/ aiResponse.threw
                \/ parsed.threw
                \/ Missing("summary") \/ Missing("recommendation")
                \/ Missing("linkedSymptomIds")
        IN  /\ ~result.threw
            /\ Len(evaluation.priorSymptoms) = 0 =>
                  result.value = [t |-> "null"] /\ result.requests = 0
            /\ (Len(evaluation.priorSymptoms) > 0 /\ failed) =>
                  /\ result.value = NoLinkageInsight
                  /\ result.value.v["linkedSymptomIds"].v = <<>>

\* With two prior symptoms the reply did not parse and the placeholder came
\* back.
UnparsableInsightGavePlaceholder ==
    /\ evaluation.called
    /\ Len(evaluation.priorSymptoms) = 2
    /\ evaluation.net.kind = "content"
    /\ evaluation.net.text = "{bad}"
    /\ evaluation.env = GeminiEnv
    /\ evaluation.result.value = NoLinkageInsight

\* C29: for a symptom without critical or low-priority keyword, the descriptor
\* word of the severity text decides, whatever number the text holds: mild or
\* light gives low, moderate gives medium, moderate-to-severe, severe or
\* intense gives high.
DescriptorWordDecidesLevel ==
    (/\ evaluation.called
     /\ evaluation.symptom \in {Undefined, Some(""), Some("knee pain")}) =>
        LET wording == evaluation.severity.wording
        IN  /\ wording \in {"mild", "Light"} => evaluation.result = "low"
            /\ wording = "moderate" => evaluation.result = "medium"
            /\ wording \in {"moderate-to-severe", "SEVERE", "intense"} =>
                  evaluation.result = "high"

\* C30: for a severity text without descriptor word that holds a number, the
\* level before the symptom adjustment is the band of that number: at most 3
\* low, above 3 and at most 6 medium, above 6 high (a number above 10 counting
\* as 10); a text with neither descriptor, number nor phrase, or no text at
\* all, gives medium.
NumberIsBandedWithoutDescriptor ==
    (/\ evaluation.called
     /\ evaluation.symptom \in {Undefined, Some(""), Some("knee pain")}) =>
        LET severity == evaluation.severity
            tenths == IF severity.number[1].tenths > 100 THEN 100
                      ELSE severity.number[1].tenths
        IN  /\ (severity.wording \in {"", "getting worse", "manageable", "throbbing"}
                  /\ severity.number # <<>>) =>
                  evaluation.result = IF tenths <= 30 THEN "low"
                                      ELSE IF tenths <= 60 THEN "medium"
                                      ELSE "high"
            /\ (severity.absent \/ (severity.wording \in {"", "throbbing"}
                                      /\ severity.number = <<>>)) =>
                  evaluation.result = "medium"

\* A score of exactly 3.0 next to a phrase was banded low.
ScoreOfThreeBandedLow ==
    /\ evaluation.called
    /\ evaluation.symptom = Some("knee pain")
    /\ evaluation.severityText = Some("3.0/10, getting worse")
    /\ evaluation.result = "low"

\* C24: refreshRelatedInsights, whatever its lookup came back with, leaves
\* conversationState, the summary and the recommendation as they were and
\* ends with relatedLoading false; relatedLoading is true only while the
\* refresh is pending; and with relatedError set, Confirm & Save is enabled
\* whenever loading, updatingSummary and an open edit do not disable it.
RefreshWritesOnlyRelatedFields ==
    /\ [][(pending.op = "refresh" /\ pending'.op = "none")
             => /\ conversationState' = conversationState
                /\ summary' = summary
                /\ recommendation' = recommendation
                /\ relatedLoading' = FALSE]_vars
    /\ [](relatedLoading => pending.op = "refresh")
    /\ []((/\ relatedError # Undefined /\ showSummary /\ ~completed
           /\ ~loading /\ ~updatingSummary /\ editingField = NoEdit
           /\ saves < SaveBudget(variant))
             => ENABLED ConfirmAndSaveStart)

\* A lookup failed, the summary screen shows the error, and Confirm & Save
\* can be clicked.
LookupFailedAndConfirmEnabled ==
    /\ relatedError = Some("Unable to load recent symptoms right now.")
    /\ relatedSymptoms = <<>> /\ relatedInsight = Undefined
    /\ showSummary /\ ~relatedLoading /\ pending = Idle
    /\ ENABLED ConfirmAndSaveStart

\* C25: whenever the summary screen is shown and updatingSummary is false,
\* the summary, the tips and the recommendation are what the generators
\* return for the ConversationState and the additional info the component
\* holds.
OutputsAreOfCurrentFields ==
    (showSummary /\ ~updatingSummary)
       => \E sc \in SummaryCalls(variant, conversationState, finalAdditionalInfo),
             rc \in RecommendationCalls(variant, conversationState, finalAdditionalInfo) :
             /\ summary = sc.result.text
             /\ improvementTips = sc.result.tips
             /\ recommendation = Some([recommendation |-> rc.result.recommendation,
                                       urgencyLevel |-> rc.result.urgencyLevel,
                                       advice |-> rc.result.advice])

\* An edit of the context was saved and its regeneration has completed.
EditedContextRegenerated ==
    /\ edits = 1 /\ showSummary /\ ~updatingSummary /\ pending = Idle
    /\ conversationState.contextualInfo = Some("Back PAIN")

\* C26: a confirmAndSave and another operation on the ConversationState (a
\* generateNextQuestion call, a regeneration of the outputs) are never
\* pending together, and the ConversationState does not change while a
\* confirmAndSave is pending.
AtMostOneStateOperationInFlight ==
    /\ [](~(saving.active /\ pending.op # "none"))
    /\ [][saving.active => conversationState' = conversationState]_vars

\* C27: in phase 'summary' generateNextQuestion returns the state as it is
\* with phase 'summary'; a message sent in phase 'summary' goes to
\* finalizeSummary as additional info, without a generateNextQuestion call;
\* until the summary screen is shown the ConversationState keeps every
\* field; and on the summary screen no message can be sent.
SummaryPhaseMessageChangesNoField ==
    /\ [](conversationState.conversationPhase = "summary"
             => \A input \in Inputs("summary") :
                   /\ generateNextQuestionDet(conversationState, trim(input)).newState
                         = conversationState
                   /\ generateNextQuestionDet(conversationState, trim(input)).phase
                         = "summary")
    /\ [][(conversationState.conversationPhase = "summary" /\ messages' # messages)
             => /\ pending'.op = "regenerate"
                /\ pending'.state = conversationState
                /\ pending'.info = finalAdditionalInfo'
                /\ finalAdditionalInfo' # Undefined]_vars
    /\ [][(conversationState.conversationPhase = "summary" /\ ~showSummary')
             => conversationState' = conversationState]_vars
    /\ [](showSummary
             => ~ENABLED (\E input \in Inputs(conversationState.conversationPhase) :
                             HandleSendStart(input)))

\* The additional info was sent in phase 'summary' and the summary screen
\* is shown.
AdditionalInfoSentAndSummaryShown ==
    /\ showSummary /\ pending = Idle
    /\ finalAdditionalInfo = Some("two days")
    /\ messages[Len(messages)] = UserMessage
    /\ conversationState.conversationPhase = "summary"

\* C28: the log starts with the greeting and never holds two consecutive
\* messages of one role; it changes only in handleSend; a handleSend before
\* phase 'summary' appends the user's message and then, when
\* generateNextQuestion settles, exactly one message of the assistant.
LogAlternatesAndGrowsInPairs ==
    /\ [](/\ messages[1] = Greeting
          /\ \A i \in 1..(Len(messages) - 1) : messages[i].role # messages[i + 1].role
          /\ (pending.op = "nextQuestion") = (~showSummary /\ loading /\ ~updatingSummary)
          /\ (pending.op = "nextQuestion" => messages[Len(messages)] = UserMessage))
    /\ [][(pending.op = "none" /\ pending'.op = "nextQuestion")
             => messages' = Append(messages, UserMessage)]_vars
    /\ [][(pending.op = "nextQuestion" /\ pending'.op = "none")
             => /\ Len(messages') = Len(messages) + 1
                /\ SubSeq(messages', 1, Len(messages)) = messages
                /\ messages'[Len(messages')].role = "assistant"]_vars
    /\ [][messages' # messages
             => \/ pending.op = "none" /\ pending'.op \in {"nextQuestion", "regenerate"}
                \/ pending.op = "nextQuestion" /\ pending'.op = "none"]_vars

\* Two messages were answered: the log holds the greeting and two pairs.
TwoMessagesAnswered ==
    /\ Len(messages) = 5 /\ pending = Idle /\ ~showSummary
    /\ messages[4] = UserMessage /\ messages[5] = AssistantMessage(FALSE)

\* C31: the level deriveSeverityLevel returns is the level of the severity
\* text, raised by one band (low to medium, medium and high to high) for a
\* symptom with a critical keyword, lowered from medium to low for a symptom
\* with a low-priority keyword and no critical one, and left as it is
\* otherwise; '8/10, throbbing' with 'Chest tightness' gives high.
SymptomAdjustsLevelByOneBand ==
    evaluation.called =>
        LET critical == evaluation.symptom \in {Some("Chest tightness"),
                                                Some("shortness of breath"),
                                                Some("headache with blurred vision")}
            lowPriority == evaluation.symptom \in {Some("Headache"), Some("migraine")}
        IN  /\ critical =>
                  evaluation.result = IF evaluation.banded = "low" THEN "medium" ELSE "high"
            /\ lowPriority =>
                  evaluation.result = IF evaluation.banded = "medium" THEN "low"
                                      ELSE evaluation.banded
            /\ (~critical /\ ~lowPriority) => evaluation.result = evaluation.banded
            /\ (/\ evaluation.symptom = Some("Chest tightness")
                /\ evaluation.severityText = Some("8/10, throbbing")) =>
                  evaluation.result = "high"

\* A score of 2 with a chest symptom was raised from low to medium.
LowRaisedToMediumForChest ==
    /\ evaluation.called
    /\ evaluation.symptom = Some("Chest tightness")
    /\ evaluation.severityText = Some("2/10")
    /\ evaluation.banded = "low"
    /\ evaluation.result = "medium"

\* C38: for a symptom with a critical keyword deriveSeverityLevel never
\* returns low, whatever the severity text, also when the symptom holds a
\* low-priority keyword as well.
CriticalSymptomNeverLow ==
    (/\ evaluation.called
     /\ evaluation.symptom \in {Some("Chest tightness"), Some("shortness of breath"),
                                Some("headache with blurred vision")}) =>
        evaluation.result # "low"

\* A headache with blurred vision at a medium score was raised to high.
HeadacheWithVisionRaisedFromMedium ==
    /\ evaluation.called
    /\ evaluation.symptom = Some("headache with blurred vision")
    /\ evaluation.severityText = Some("6/10")
    /\ evaluation.banded = "medium"
    /\ evaluation.result = "high"

\* C32: a generateNextQuestion call made in phase P returns, for each of
\* symptom, bodyLocation, duration and contextualInfo that was non-empty in
\* the state it was given and is not the field P owns, the value it was given.
CapturedFieldsSurviveLaterCalls ==
    [][Called
         => LET phase == conversationState.conversationPhase
                owned ==
                    CASE phase = "symptom"  -> "symptom"
                      [] phase = "location" -> "bodyLocation"
                      [] phase = "duration" -> "duration"
                      [] phase = "context"  -> "contextualInfo"
                      [] OTHER -> "none"
            IN  \A f \in {"symptom", "bodyLocation", "duration", "contextualInfo"} :
                   (Truthy(conversationState[f]) /\ f # owned)
                      => conversationState'[f] = conversationState[f]]_vars

\* C33: every result of generateNextQuestion reports the phase its newState
\* holds.
ReportedPhaseIsStoredPhase ==
    [][(Called /\ ~last'.threw)
         => last'.phase = conversationState'.conversationPhase]_vars

\* C34: the step that ends a confirmAndSave writes a conversation row only
\* together with the symptom row of the same save, whose id it carries;
\* onComplete is called only when no insert reported an error; when the
\* symptom insert fails no row is written; and after a failed insert the
\* summary screen stays with loading false and onComplete not called.
ConversationFollowsSymptomRow ==
    [][(saving.active /\ ~saving'.active)
         => /\ store'.conversations # store.conversations
                 => /\ Len(store'.symptoms) = Len(store.symptoms) + 1
                    /\ SubSeq(store'.conversations, 1, Len(store.conversations))
                          = store.conversations
                    /\ Len(store'.conversations) = Len(store.conversations) + 1
                    /\ store'.conversations[Len(store'.conversations)].symptom_id
                          = store'.symptoms[Len(store'.symptoms)].id
            /\ store'.symptoms = store.symptoms
                 => store'.conversations = store.conversations
            /\ completed' => ~saving'.alerted
            /\ saving'.alerted => (showSummary' /\ ~loading' /\ ~completed')
            /\ ~loading']_vars

\* A save failed at the symptom insert: nothing was written, the alert was
\* shown and Confirm & Save can be clicked again.
FailedSaveCanBeRetried ==
    /\ saving = [active |-> FALSE, alerted |-> TRUE]
    /\ store = [symptoms |-> <<>>, conversations |-> <<>>]
    /\ showSummary /\ ~loading /\ ~completed
    /\ ENABLED ConfirmAndSaveStart

\* C35: the store never holds more than one symptom row of the session, and
\* after a confirmAndSave that failed every symptom row has its conversation
\* row.
AtMostOneSymptomRecord ==
    /\ Len(store.symptoms) <= 1
    /\ (~saving.active /\ saving.alerted)
         => \A i \in 1..Len(store.symptoms) :
               \E j \in 1..Len(store.conversations) :
                  store.conversations[j].symptom_id = store.symptoms[i].id

\* C36: whenever a confirmAndSave starts, symptom, duration and
\* contextualInfo of the ConversationState are non-empty, and no symptom row
\* has an empty symptom_name, duration or description.
SavedFieldsNonEmpty ==
    /\ saving.active
         => /\ Truthy(saving.state.symptom)
            /\ Truthy(saving.state.duration)
            /\ Truthy(saving.state.contextualInfo)
    /\ \A i \in 1..Len(store.symptoms) :
          /\ store.symptoms[i].row.symptom_name # ""
          /\ store.symptoms[i].row.duration # ""
          /\ store.symptoms[i].row.description # ""

\* C37: whenever the symptom contains 'cough' and the duration contains
\* 'week', the Urgency Classifier answers urgent or high; and whenever it
\* answers medium the symptom contains 'persistent' or 'recurring': the
\* condition 'cough and week' of the medium tier never decides the result.
CoughWeekConditionNeverDecides ==
    ClassifierRan
      => LET symptom  == toLowerCase(OrElse(conversationState.symptom, ""))
             duration == toLowerCase(OrElse(conversationState.duration, ""))
         IN  /\ (includes(symptom, "cough") /\ includes(duration, "week"))
                  => lastOutputs.recommendation.urgencyLevel \in {"urgent", "high"}
             /\ lastOutputs.recommendation.urgencyLevel = "medium"
                  => (includes(symptom, "persistent") \/ includes(symptom, "recurring"))

\* A mild cough of two weeks was classified high, by the duration.
CoughOfTwoWeeksClassifiedHigh ==
    /\ ClassifierRan
    /\ conversationState.symptom = Some("mild cough")
    /\ conversationState.duration = Some("2 Weeks")
    /\ conversationState.contextualInfo = Undefined
    /\ lastOutputs.recommendation.urgencyLevel = "high"

====
